---- MODULE Spec2Model ----
(***************************************************************************)
(* Client-side upload / transcribe / analyze pipeline of the voice         *)
(* conversation analyzer:                                                  *)
(*   - the useTranscription hook driving transcriptionService (direct      *)
(*     multipart upload, or staged upload through blob storage);           *)
(*   - the useAIAnalysis hook (result cache, analyzeAll, cancel, reset)    *)
(*     driving aiAnalysisService.analyzeText (fan-out of up to three       *)
(*     provider calls).                                                    *)
(* Three specifications share the module: SpecTranscription (the           *)
(* transcription hook), SpecAnalysis (the analysis hook and service) and   *)
(* SpecCache (the cache operations alone, up to and beyond capacity).      *)
(***************************************************************************)
EXTENDS Integers, Sequences, FiniteSets, TLC

\* JavaScript null where an object is expected
Null == [null |-> TRUE]

Min(a, b) == IF a <= b THEN a ELSE b

Last(s) == s[Len(s)]

(***************************************************************************)
(* Bounds of the model                                                     *)
(***************************************************************************)
\* transcribe / retry invocations in one behaviour
MaxRuns == 2
\* size of an upload in progress-event units (xhr.upload 'progress' events)
MaxUploadUnits == 2

(***************************************************************************)
(* Files offered to the transcription hook                                 *)
(***************************************************************************)
DirectMaxSize == 15 * 1024 * 1024
StagedMaxSize == 500 * 1024 * 1024

supportedTypes ==
  {"audio/mpeg", "audio/mp3", "audio/wav", "audio/m4a", "audio/mp4",
   "audio/webm", "audio/ogg"}

\* the uploader's own limits (defaults, no REACT_APP_* override)
supportedFormats ==
  {"audio/mpeg", "audio/wav", "audio/mp4", "audio/webm", "audio/ogg"}

maxFileSize == 26214400

\* duration 0 stands for a duration the browser cannot read (NaN / 0)
Files ==
  { [size |-> 5 * 1024 * 1024, type |-> "audio/mpeg", duration |-> 120],
    [size |-> 20 * 1024 * 1024, type |-> "audio/wav", duration |-> 0],
    [size |-> StagedMaxSize + 1, type |-> "audio/ogg", duration |-> 125],
    [size |-> 1024, type |-> "video/mp4", duration |-> 7] }

Strategies == {"direct", "staged"}

VARIABLES
  \* ---- useTranscription state (progress is kept in half percents) ----
  isTranscribing, progress, result, error, estimatedTime,
  \* ---- App state ----
  selectedFile,
  \* ---- transcription runs in flight ----
  strategy,      \* which transcriptionService build is bundled
  runs,          \* run id -> [pc, file, loaded, total]
  progressLog,   \* run id -> [first, last, mono]: the first and the last
                 \* progress value the run wrote, and whether no value it
                 \* wrote was below the one it wrote before
  idleSinceReset \* TRUE from a reset() until the next transcribe() starts

tvars == <<isTranscribing, progress, result, error, estimatedTime,
           selectedFile, strategy, runs, progressLog, idleSinceReset>>

VARIABLES
  \* ---- useAIAnalysis state ----
  isAnalyzing, analysisProgress, results, analysisError, analysisType,
  cache,        \* cacheRef.current: the Map's entries in iteration order
  \* ---- environment and analyzeAll calls in flight ----
  now,          \* Date.now(), in milliseconds
  calls,        \* call id -> the state of that analyzeAll invocation
  lastReturn,   \* the analyze call that finished last, and what it returned
  lastFresh,    \* the last result a provider run produced, unless
                \* clearCache() or reanalyze() was called since
  callerOptions \* the option objects the caller of the hook passes

avars == <<isAnalyzing, analysisProgress, results, analysisError, analysisType,
           cache, now, calls, lastReturn, lastFresh, callerOptions>>

\* ---- the cache on its own: stores and lookups of many keys ----
VARIABLES
  nextKey,      \* the number of the next text that was not analyzed yet
  cacheOps,     \* operations on the cache other than the store of a new text
  inserts,      \* how many keys were added to the Map so far
  insertSeq     \* text number -> which addition to the Map added its key last

\* ---- one operation applied to one input ----
VARIABLES
  probe         \* the operation applied last, its input and what it gave

\* ---- the relay endpoints of the backend ----
VARIABLES
  relay         \* the request a relay handler serves: its position, the
                \* temporary file it holds, and the blob stored for it

pvars == <<probe, relay>>

cvars == <<nextKey, cacheOps, inserts, insertSeq, pvars>>

vars == <<tvars, avars, cvars>>

RunIds == 1 .. MaxRuns

NoLog == [first |-> -1, last |-> -1, mono |-> TRUE]

\* the log after the values vs were written, in order
RECURSIVE Logged(_, _)
Logged(log, vs) ==
  IF vs = << >> THEN log
  ELSE Logged([first |-> IF log.first = -1 THEN Head(vs) ELSE log.first,
               last |-> Head(vs),
               mono |-> log.mono /\ (log.last <= Head(vs))],
              Tail(vs))

NoRun == [pc |-> "idle", file |-> Null, loaded |-> 0, total |-> 0,
          requests |-> << >>, waited |-> 0]

\* the requests of a run once one more was handed to the transport, issued
\* twice
sendTwice(requests, request) == Append(Append(requests, request), request)
\* the requests of a run once one more was handed to the transport
send(requests, request) == Append(requests, request)

\* the request transcribeAudio issues first once the file has passed
firstRequest ==
  IF strategy = "direct" THEN "POST /transcribe" ELSE "POST /blob-upload-token"

TranscriptionError(message, status, code) ==
  [name |-> "TranscriptionError", message |-> message, status |-> status,
   code |-> code]

\* resolve(duration || 60) and the 'error' listener's resolve(60)
getAudioDuration(file) == IF file.duration = 0 THEN 60 ELSE file.duration

\* Math.ceil(audioDuration * 0.1) + 10 on whole seconds
estimateTranscriptionTime(audioDuration) == ((audioDuration + 9) \div 10) + 10

\* Math.round(x / y * 100) for 0 <= x <= y, y > 0
RoundPercent(x, y) == (200 * x + y) \div (2 * y)

\* onProgress of the hook: Math.min(uploadProgress * 0.5, 50), in half percents
onProgressUnmapped(uploadProgress) == 2 * uploadProgress
onProgress(uploadProgress) == Min(uploadProgress, 100)

\* setProgress(p) in half percents, p being a percentage
Pct(p) == 2 * p

\* the validation at the head of transcribeAudio: Null when the file passes
maxSize == IF strategy = "direct" THEN DirectMaxSize ELSE StagedMaxSize

\* the validation without the type check
validateFileSizeOnly(file) ==
  IF file.size > maxSize
    THEN TranscriptionError("File too large", 400, "FILE_TOO_LARGE")
  ELSE Null
\* the validation with the type looked at first
validateFileTypeFirst(file) ==
  IF file.type \notin supportedTypes
    THEN TranscriptionError("Unsupported file type", 400, "UNSUPPORTED_FILE_TYPE")
  ELSE IF file.size > maxSize
    THEN TranscriptionError("File too large", 400, "FILE_TOO_LARGE")
  ELSE Null
validateFile(file) ==
  IF file.size > maxSize
    THEN TranscriptionError("File too large", 400, "FILE_TOO_LARGE")
  ELSE IF file.type \notin supportedTypes
    THEN TranscriptionError("Unsupported file type", 400, "UNSUPPORTED_FILE_TYPE")
  ELSE Null

TInit ==
  /\ isTranscribing = FALSE
  /\ progress = 0
  /\ result = Null
  /\ error = Null
  /\ estimatedTime = 0
  /\ selectedFile = Null
  /\ strategy \in Strategies
  /\ runs = [r \in RunIds |-> NoRun]
  /\ progressLog = [r \in RunIds |-> NoLog]
  /\ idleSinceReset = FALSE

\* the transcription hook left alone
TIdle == TInit /\ strategy = "direct"

\* the transcription hook once the uploader has handed a file to
\* handleFileSelect
TSelected ==
  /\ isTranscribing = FALSE
  /\ progress = 0
  /\ result = Null
  /\ error = Null
  /\ estimatedTime = 0
  /\ selectedFile \in {f \in Files : f.type \in supportedFormats /\ f.size <= maxFileSize}
  /\ strategy \in Strategies
  /\ runs = [r \in RunIds |-> NoRun]
  /\ progressLog = [r \in RunIds |-> NoLog]
  /\ idleSinceReset = TRUE

\* the next unused run id
FreshRun(r) == runs[r].pc = "idle" /\ \A q \in RunIds : q < r => runs[q].pc # "idle"

\* transcribe(file, options) up to its first await (getAudioDuration)
transcribe(r, file) ==
  /\ FreshRun(r)
  /\ isTranscribing' = TRUE
  /\ progress' = 0
  /\ result' = Null
  /\ error' = Null
  /\ runs' = [runs EXCEPT ![r] = [pc |-> "estimating", file |-> file,
                                   loaded |-> 0, total |-> 0,
                                   requests |-> << >>, waited |-> 0]]
  /\ progressLog' = [progressLog EXCEPT ![r] = Logged(NoLog, <<0>>)]
  /\ idleSinceReset' = FALSE
  /\ UNCHANGED <<estimatedTime, selectedFile, strategy>>
  /\ UNCHANGED <<avars, cvars>>

\* handleTranscribe of App: if (!selectedFile) return; transcribe(selectedFile)
HandleTranscribe(r) ==
  /\ selectedFile # Null
  /\ transcribe(r, selectedFile)

\* retry(file) of the hook, wired to onClick={() => retry(selectedFile)}
Retry(r) ==
  /\ selectedFile # Null
  /\ error # Null
  /\ transcribe(r, selectedFile)

\* reset() of the hook
reset ==
  /\ isTranscribing' = FALSE
  /\ progress' = 0
  /\ result' = Null
  /\ error' = Null
  /\ estimatedTime' = 0

Reset ==
  /\ reset
  /\ idleSinceReset' = TRUE
  /\ UNCHANGED <<selectedFile, strategy, runs, progressLog>>
  /\ UNCHANGED <<avars, cvars>>

\* analysisType when no analysis runs
NoType == "null"

\* reset() of the analysis hook
resetAnalysis ==
  /\ isAnalyzing' = FALSE
  /\ analysisProgress' = 0
  /\ results' = Null
  /\ analysisError' = Null
  /\ analysisType' = NoType

\* handleFileSelection: the alert the uploader shows ("none": the file is
\* handed to onFileSelect)
uploaderAlert(file) ==
  IF file.type \notin supportedFormats THEN "unsupported format"
  ELSE IF file.size > maxFileSize THEN "too large"
  ELSE "none"

\* handleFileSelection of the uploader (a rejected file is never handed on),
\* then handleFileSelect of App: setSelectedFile(file); reset();
\* resetAnalysis()
HandleFileSelect(file) ==
  /\ uploaderAlert(file) = "none"
  /\ selectedFile' = file
  /\ reset
  /\ resetAnalysis
  /\ idleSinceReset' = TRUE
  /\ UNCHANGED <<strategy, runs, progressLog>>
  /\ UNCHANGED <<cache, now, calls, lastReturn, lastFresh, callerOptions>>
  /\ UNCHANGED cvars

\* a catch that keeps the message of the error alone
FailUntyped(r, err) ==
  /\ error' = [name |-> "Error", message |-> err.message]
  /\ isTranscribing' = FALSE
  /\ runs' = [runs EXCEPT ![r] = [NoRun EXCEPT !.pc = "failed",
                                                 !.requests = runs[r].requests]]
\* the catch / finally of transcribe: setError(err); setIsTranscribing(false)
Fail(r, err) ==
  /\ error' = err
  /\ isTranscribing' = FALSE
  /\ runs' = [runs EXCEPT ![r] = [NoRun EXCEPT !.pc = "failed",
                                                 !.requests = runs[r].requests]]

\* setProgress(v) by run r, v in half percents
WriteProgress(r, vs) ==
  /\ progress' = Last(vs)
  /\ progressLog' = [progressLog EXCEPT ![r] = Logged(@, vs)]

\* getAudioDuration resolved: setEstimatedTime, then transcribeAudio up to
\* its first await (validation, then the first request of the strategy)
DurationResolved(r) ==
  /\ runs[r].pc = "estimating"
  /\ estimatedTime' = estimateTranscriptionTime(getAudioDuration(runs[r].file))
  /\ LET bad == validateFile(runs[r].file) IN
     IF bad # Null
       THEN /\ Fail(r, bad)
            /\ UNCHANGED <<progress, progressLog>>
     ELSE IF strategy = "direct"
       THEN /\ \E total \in 1 .. MaxUploadUnits :
                 runs' = [runs EXCEPT ![r].pc = "xhr", ![r].total = total,
                                      ![r].requests = send(@, firstRequest)]
            /\ UNCHANGED <<progress, progressLog, error, isTranscribing>>
     ELSE \* staged: onProgress(10), then the token request
            /\ runs' = [runs EXCEPT ![r].pc = "token",
                                     ![r].requests = send(@, firstRequest)]
            /\ WriteProgress(r, <<onProgress(10)>>)
            /\ UNCHANGED <<error, isTranscribing>>
  /\ UNCHANGED <<result, selectedFile, strategy, idleSinceReset>>
  /\ UNCHANGED <<avars, cvars>>

\* transcribeAudio resolved: setProgress(75), then the 500 ms timer
Resolved(r, before) ==
  /\ runs' = [runs EXCEPT ![r].pc = "smoothing"]
  /\ WriteProgress(r, before \o <<Pct(75)>>)
  /\ UNCHANGED <<result, error, isTranscribing, estimatedTime, selectedFile,
                 strategy, idleSinceReset>>
  /\ UNCHANGED <<avars, cvars>>

Failed(r, err) ==
  /\ Fail(r, err)
  /\ UNCHANGED <<progress, progressLog, result, estimatedTime, selectedFile,
                 strategy, idleSinceReset>>
  /\ UNCHANGED <<avars, cvars>>

(* ---------------- direct strategy: one XMLHttpRequest ---------------- *)

\* xhr.upload 'progress' event with lengthComputable
XhrProgress(r) ==
  /\ runs[r].pc = "xhr"
  /\ \E loaded \in (runs[r].loaded + 1) .. runs[r].total :
       /\ runs' = [runs EXCEPT ![r].loaded = loaded]
       /\ WriteProgress(r, <<onProgress(RoundPercent(loaded, runs[r].total))>>)
  /\ UNCHANGED <<result, error, isTranscribing, estimatedTime, selectedFile,
                 strategy, idleSinceReset>>
  /\ UNCHANGED <<avars, cvars>>

\* xhr 'load' with status 200 and a body that parses
XhrLoadOk(r) ==
  /\ runs[r].pc = "xhr"
  /\ Resolved(r, << >>)

\* xhr 'load' with another status or an unparsable body, 'error', 'timeout'
XhrCodes == {"PARSE_ERROR", "API_ERROR", "HTTP_ERROR", "NETWORK_ERROR", "TIMEOUT"}

XhrFail(r) ==
  /\ runs[r].pc = "xhr"
  /\ \E code \in XhrCodes : Failed(r, TranscriptionError("failed", 0, code))

(* ---------------- staged strategy: token, put, process --------------- *)

\* the token request answered ok: onProgress(30), then the PUT of the bytes
TokenOk(r) ==
  /\ runs[r].pc = "token"
  /\ runs' = [runs EXCEPT ![r].pc = "put",
                           ![r].requests = send(@, "PUT uploadUrl")]
  /\ WriteProgress(r, <<onProgress(30)>>)
  /\ UNCHANGED <<result, error, isTranscribing, estimatedTime, selectedFile,
                 strategy, idleSinceReset>>
  /\ UNCHANGED <<avars, cvars>>

TokenFail(r) ==
  /\ runs[r].pc = "token"
  /\ \E code \in {"UPLOAD_TOKEN_FAILED", "UNEXPECTED_ERROR"} :
       Failed(r, TranscriptionError("failed", 500, code))

\* the PUT answered ok: onProgress(60), then the processing request
PutOk(r) ==
  /\ runs[r].pc = "put"
  /\ runs' = [runs EXCEPT ![r].pc = "process",
                           ![r].requests = send(@, "POST /transcribe-from-blob")]
  /\ WriteProgress(r, <<onProgress(60)>>)
  /\ UNCHANGED <<result, error, isTranscribing, estimatedTime, selectedFile,
                 strategy, idleSinceReset>>
  /\ UNCHANGED <<avars, cvars>>

PutFail(r) ==
  /\ runs[r].pc = "put"
  /\ \E code \in {"BLOB_UPLOAD_FAILED", "UNEXPECTED_ERROR"} :
       Failed(r, TranscriptionError("failed", 500, code))

\* the processing request answered (any status): onProgress(90), await json()
ProcessResponded(r) ==
  /\ runs[r].pc = "process"
  /\ runs' = [runs EXCEPT ![r].pc = "json"]
  /\ WriteProgress(r, <<onProgress(90)>>)
  /\ UNCHANGED <<result, error, isTranscribing, estimatedTime, selectedFile,
                 strategy, idleSinceReset>>
  /\ UNCHANGED <<avars, cvars>>

ProcessFail(r) ==
  /\ runs[r].pc = "process"
  /\ Failed(r, TranscriptionError("failed", 500, "UNEXPECTED_ERROR"))

\* the body parsed and the response was ok: onProgress(100); return data
JsonOk(r) ==
  /\ runs[r].pc = "json"
  /\ Resolved(r, <<onProgress(100)>>)

JsonFail(r) ==
  /\ runs[r].pc = "json"
  /\ \E code \in {"API_ERROR", "UNEXPECTED_ERROR"} :
       Failed(r, TranscriptionError("failed", 500, code))

(* ---------------- a backend that stays silent ---------------- *)

\* xhr.timeout = 300000: the time limit of the direct request, in ms
xhrTimeout == 300000

\* how long a run has waited for the answer to its pending request, in ms
Waits == {0, xhrTimeout - 1, xhrTimeout, xhrTimeout + 1}

\* the positions at which a run waits for the backend
Pending == {"xhr", "token", "put", "process", "json"}

\* time passes for a run whose request is not answered; the browser fires
\* the 'timeout' event of an XMLHttpRequest when xhr.timeout has elapsed,
\* and fetch() has no time limit
Elapse(r) ==
  /\ runs[r].pc \in Pending
  /\ \E w \in Waits :
       /\ w > runs[r].waited
       /\ runs[r].pc = "xhr" => w <= xhrTimeout
       /\ runs' = [runs EXCEPT ![r].waited = w]
  /\ UNCHANGED <<isTranscribing, progress, result, error, estimatedTime,
                 selectedFile, strategy, progressLog, idleSinceReset>>
  /\ UNCHANGED <<avars, cvars>>

\* the 'timeout' listener of the XMLHttpRequest
XhrTimeout(r) ==
  /\ runs[r].pc = "xhr"
  /\ runs[r].waited = xhrTimeout
  /\ Failed(r, TranscriptionError("Request timeout after 5 minutes", 0, "TIMEOUT"))

\* the transcription hook with a backend that never answers
SilentNext ==
  \/ \E f \in Files : HandleFileSelect(f)
  \/ \E r \in RunIds : HandleTranscribe(r)
  \/ \E r \in RunIds : Retry(r)
  \/ Reset
  \/ \E r \in RunIds : DurationResolved(r)
  \/ \E r \in RunIds : XhrProgress(r)
  \/ \E r \in RunIds : Elapse(r)
  \/ \E r \in RunIds : XhrTimeout(r)

(* ---------------- completion ---------------- *)

\* the 500 ms timer fired: setProgress(100); setResult(...); finally
TimerFired(r) ==
  /\ runs[r].pc = "smoothing"
  /\ runs' = [runs EXCEPT ![r] = [NoRun EXCEPT !.pc = "succeeded",
                                                 !.requests = runs[r].requests]]
  /\ WriteProgress(r, <<Pct(100)>>)
  /\ result' = [text |-> "transcript", of |-> r]
  /\ isTranscribing' = FALSE
  /\ UNCHANGED <<error, estimatedTime, selectedFile, strategy, idleSinceReset>>
  /\ UNCHANGED <<avars, cvars>>

TNext ==
  \/ \E f \in Files : HandleFileSelect(f)
  \/ \E r \in RunIds : HandleTranscribe(r)
  \/ \E r \in RunIds : Retry(r)
  \/ Reset
  \/ \E r \in RunIds : DurationResolved(r)
  \/ \E r \in RunIds : XhrProgress(r)
  \/ \E r \in RunIds : XhrLoadOk(r)
  \/ \E r \in RunIds : XhrFail(r)
  \/ \E r \in RunIds : TokenOk(r)
  \/ \E r \in RunIds : TokenFail(r)
  \/ \E r \in RunIds : PutOk(r)
  \/ \E r \in RunIds : PutFail(r)
  \/ \E r \in RunIds : ProcessResponded(r)
  \/ \E r \in RunIds : ProcessFail(r)
  \/ \E r \in RunIds : JsonOk(r)
  \/ \E r \in RunIds : JsonFail(r)
  \/ \E r \in RunIds : TimerFired(r)

(***************************************************************************)
(* The analysis hook (useAIAnalysis) and aiAnalysisService.analyzeText      *)
(***************************************************************************)
\* analyzeAll / reanalyze invocations in one behaviour: of a caller that
\* asks for one kind at most, and of a caller that asks for any kinds
MaxCalls == 2
MaxFanoutCalls == 1

\* 60 * 60 * 1000 ms: how long a cache entry is used
CacheTTL == 60 * 60 * 1000
\* cache size limit
MaxCacheSize == 50
\* characters of the normalized text that enter the cache key
KeyPrefixLength == 100

\* the clock readings of one behaviour: around the hour after the first one
Times == {0, CacheTTL - 1, CacheTTL, CacheTTL + 1}

CallIds == DOMAIN calls

Kinds == {"summary", "keywords", "questions"}

IncludeFlag(kind) ==
  CASE kind = "summary" -> "includeSummary"
    [] kind = "keywords" -> "includeKeywords"
    [] kind = "questions" -> "includeQuestions"

\* texts handed to the hook, as sequences of characters
Texts ==
  { <<" ">>, <<"H", "i">>, <<" ", "h", "i">> }

\* option objects handed to the hook; "undefined" is an absent property
AllOptions ==
  [includeSummary : {"true", "false", "undefined"},
   includeKeywords : {"true", "false", "undefined"},
   includeQuestions : {"true", "false", "undefined"}]

\* a caller that leaves the options out, switches every kind off, or asks
\* for some kinds only
FanoutOptions ==
  { o \in AllOptions :
      \/ \A f \in DOMAIN o : o[f] = "undefined"
      \/ \A f \in DOMAIN o : o[f] = "false"
      \/ o = [includeSummary |-> "true", includeKeywords |-> "false",
              includeQuestions |-> "undefined"] }

\* a caller that asks for the summary alone
SummaryOptions ==
  { [includeSummary |-> "true", includeKeywords |-> "false",
     includeQuestions |-> "false"] }

\* a caller that asks for the summary alone, or switches every kind off
SingleKindOptions ==
  { o \in AllOptions :
      \/ \A f \in DOMAIN o : o[f] = "false"
      \/ o = [includeSummary |-> "true", includeKeywords |-> "false",
              includeQuestions |-> "false"] }

(* ---------------- text helpers ---------------- *)

IsSpace(ch) == ch \in {" ", "\n", "\t"}

RECURSIVE trimStart(_)
trimStart(s) ==
  IF s # << >> /\ IsSpace(Head(s)) THEN trimStart(Tail(s)) ELSE s

RECURSIVE trimEnd(_)
trimEnd(s) ==
  IF s # << >> /\ IsSpace(Last(s)) THEN trimEnd(SubSeq(s, 1, Len(s) - 1)) ELSE s

\* String.prototype.trim
trim(s) == trimEnd(trimStart(s))

lowerChar(ch) ==
  CASE ch = "H" -> "h"
    [] ch = "I" -> "i"
    [] OTHER -> ch

\* String.prototype.toLowerCase
toLowerCase(s) == [i \in 1 .. Len(s) |-> lowerChar(s[i])]

\* a substring that is the whole text
substringWhole(s, n) == s
\* s.substring(0, n)
substring0(s, n) == SubSeq(s, 1, Min(n, Len(s)))

\* JSON.stringify of an options object: the defined properties, in order
stringify(obj) == {<<f, obj[f]>> : f \in {g \in DOMAIN obj : obj[g] # "undefined"}}

\* { type: 'all', ...options }
withType(type, options) ==
  [f \in DOMAIN options \cup {"type"} |->
     IF f \in DOMAIN options THEN options[f] ELSE type]

\* generateCacheKey: `${normalizedText.substring(0, 100)}_${optionsString}`
generateCacheKey(text, options) ==
  <<substring0(toLowerCase(trim(text)), KeyPrefixLength), stringify(options)>>

\* the test without the trim
isEmptyTextUntrimmed(text) == Len(text) = 0
\* !text || text.trim().length === 0
isEmptyText(text) == Len(text) = 0 \/ Len(trim(text)) = 0

(* ---------------- the cache: a Map in insertion order ---------------- *)

CacheKeys(c) == {c[i].key : i \in 1 .. Len(c)}

CacheIndex(c, key) == CHOOSE i \in 1 .. Len(c) : c[i].key = key

\* Map.prototype.delete
MapDelete(c, key) ==
  IF key \in CacheKeys(c)
    THEN LET i == CacheIndex(c, key) IN SubSeq(c, 1, i - 1) \o SubSeq(c, i + 1, Len(c))
    ELSE c

\* Map.prototype.set: a present key keeps its place, a new key goes last
MapSet(c, key, entry) ==
  IF key \in CacheKeys(c)
    THEN [c EXCEPT ![CacheIndex(c, key)] = entry]
    ELSE Append(c, entry)

\* the test with the hour counted in seconds
isRecentSeconds(timestamp, t) == t - timestamp < 60 * 60
\* the 'isRecent' test of getCachedResult
isRecent(timestamp, t) == t - timestamp < CacheTTL

\* getCachedResult: the value it returns (Null for null) ...
getCachedResult(c, key, t) ==
  IF key \in CacheKeys(c) /\ isRecent(c[CacheIndex(c, key)].timestamp, t)
    THEN c[CacheIndex(c, key)].result
    ELSE Null

\* a lookup that makes the entry it returns the newest one
cacheAfterGetTouch(c, key, t) ==
  IF key \in CacheKeys(c) /\ isRecent(c[CacheIndex(c, key)].timestamp, t)
    THEN Append(MapDelete(c, key),
                [c[CacheIndex(c, key)] EXCEPT !.timestamp = t])
  ELSE IF key \in CacheKeys(c) THEN MapDelete(c, key)
  ELSE c
\* a lookup that leaves an expired entry in the map
cacheAfterGetKeep(c, key, t) == c
\* ... and the cache it leaves behind (an entry that is not recent is deleted)
cacheAfterGet(c, key, t) ==
  IF key \in CacheKeys(c) /\ ~isRecent(c[CacheIndex(c, key)].timestamp, t)
    THEN MapDelete(c, key)
    ELSE c

\* the key that was added last
newestKey(c) == c[Len(c)].key
\* which entry the size limit removes: cacheRef.current.keys().next().value
firstKey(c) == c[1].key

\* a store without the size limit
setCachedResultUnbounded(c, key, value, t) ==
  MapSet(c, key, [key |-> key, result |-> value, timestamp |-> t])
\* a store that adds an entry of the summary alone as well
setCachedResultPerKind(c, key, value, t) ==
  LET stored == MapSet(c, key, [key |-> key, result |-> value, timestamp |-> t])
      kindKey == <<key[1], (key[2] \ {<<"type", "all">>}) \cup {<<"type", "summary">>}>>
  IN MapSet(stored, kindKey, [key |-> kindKey, result |-> value, timestamp |-> t])
\* a store that keeps an aggregate only when a kind succeeded
setCachedResultOnSuccess(c, key, value, t) ==
  LET stored == MapSet(c, key, [key |-> key, result |-> value, timestamp |-> t])
  IN IF "success" \in DOMAIN value /\ ~value.success THEN c
     ELSE IF Len(stored) > MaxCacheSize THEN MapDelete(stored, firstKey(stored))
     ELSE stored
\* setCachedResult
setCachedResult(c, key, value, t) ==
  LET stored == MapSet(c, key, [key |-> key, result |-> value, timestamp |-> t])
  IN IF Len(stored) > MaxCacheSize THEN MapDelete(stored, firstKey(stored)) ELSE stored

(* ---------------- aiAnalysisService ---------------- *)

\* text.length above which analyzeAll analyzes the first chunk only
LongTextThreshold == 8000
\* the maxChunkSize analyzeAll passes to splitTextIntoChunks
ChunkSize == 4000

IsSentenceEnd(ch) == ch \in {".", "!", "?"}

\* where text.split(/[.!?]\s+/) finds a separator in s from position from
\* on: at a sentence end that white space follows
separators(s, from) ==
  {i \in from .. Len(s) - 1 : IsSentenceEnd(s[i]) /\ IsSpace(s[i + 1])}

\* the last position of the white space that follows position i
lastSpace(s, i) ==
  CHOOSE j \in i + 1 .. Len(s) :
    /\ \A k \in i + 1 .. j : IsSpace(s[k])
    /\ j = Len(s) \/ ~IsSpace(s[j + 1])

\* text.split(/[.!?]\s+/): the pieces of s between the separators, from
\* position from on
RECURSIVE splitSentences(_, _)
splitSentences(s, from) ==
  IF separators(s, from) = {} THEN <<SubSeq(s, from, Len(s))>>
  ELSE LET first == CHOOSE i \in separators(s, from) :
                      \A j \in separators(s, from) : i <= j
       IN <<SubSeq(s, from, first - 1)>>
            \o splitSentences(s, lastSpace(s, first) + 1)

\* the loop of splitTextIntoChunks over the sentences
RECURSIVE packChunks(_, _, _)
packChunks(sentences, currentChunk, maxChunkSize) ==
  IF sentences = << >>
    THEN IF trim(currentChunk) # << >> THEN <<trim(currentChunk)>> ELSE << >>
  ELSE LET sentence == Head(sentences)
           flush == Len(currentChunk) + Len(sentence) > maxChunkSize
                      /\ currentChunk # << >>
           next == (IF flush THEN << >> ELSE currentChunk) \o sentence \o <<".", " ">>
       IN (IF flush THEN <<trim(currentChunk)>> ELSE << >>)
            \o packChunks(Tail(sentences), next, maxChunkSize)

splitTextIntoChunks(text, maxChunkSize) ==
  IF Len(text) <= maxChunkSize THEN <<text>>
  ELSE packChunks(splitSentences(text, 1), << >>, maxChunkSize)

\* the text with the threshold that of the chunk size
processTextOverChunkSize(text) ==
  IF Len(text) > ChunkSize
    THEN splitTextIntoChunks(text, ChunkSize)[1]
    ELSE text
\* what analyzeAll hands to analyzeText
processText(text) ==
  IF Len(text) > LongTextThreshold
    THEN splitTextIntoChunks(text, ChunkSize)[1]
    ELSE text

\* how a provider call of one kind can fail
FailureCodes == {"HTTP_ERROR", "RATE_LIMIT", "PARSE_ERROR"}

\* error.code of a failure of the request other than the rate limit
OtherCodes == FailureCodes \ {"RATE_LIMIT", "PARSE_ERROR"}

\* the retry hint of callAI's rate-limit message
RetryHint == "retry in about 30 seconds"

\* error.message of the AnalysisError callAI throws: for status 429 (or a
\* body that names a rate limit) the hint, else the body's message or the
\* status line
callAIMessage(code) ==
  IF code = "RATE_LIMIT" THEN RetryHint ELSE "HTTP status"

Absent == [absent |-> TRUE]

\* what a kind's provider call delivered to call c
Response(c, kind) == [kind |-> kind, generated |-> c]

FailPrefix(kind) ==
  CASE kind = "summary" -> "Summary generation failed"
    [] kind = "keywords" -> "Keyword extraction failed"
    [] kind = "questions" -> "Question generation failed"

\* error.message of the AnalysisError thrown when neither the JSON parse nor
\* the fallback gave items
ParseMessage(kind) ==
  IF kind = "keywords" THEN "Failed to parse keywords from AI response"
  ELSE "Failed to parse questions from AI response"

\* error.message of the AnalysisError a failed kind throws: its prefix, and
\* the message of the error it caught
FailMessage(kind, code) ==
  [message |-> <<FailPrefix(kind),
                 IF code = "PARSE_ERROR" THEN ParseMessage(kind)
                 ELSE callAIMessage(code)>>]

AnalysisError(message, status, code) ==
  [name |-> "AnalysisError", message |-> message, status |-> status, code |-> code]

\* options.includeX !== false
included(options, kind) == options[IncludeFlag(kind)] # "false"

\* Promise.allSettled(analysisPromises) has resolved
anySettled(kinds) ==
  \/ \A k \in Kinds : kinds[k] = "none"
  \/ \E k \in Kinds : kinds[k] \notin {"none", "pending"}
allSettled(kinds) == \A k \in Kinds : kinds[k] # "pending"

\* the object analyzeText returns, with only the failed kinds kept on a failure
analyzeTextResultFailFast(c, text, kinds, t) ==
  LET failed == {k \in Kinds : kinds[k] \in FailureCodes}
  IN [success |-> failed = {} /\ \E k \in Kinds : kinds[k] = "ok",
      results |-> [k \in Kinds |->
                     IF kinds[k] = "ok" /\ failed = {} THEN Response(c, k) ELSE Absent],
      errors |-> IF failed # {}
                   THEN [k \in Kinds |->
                           IF k \in failed THEN FailMessage(k, kinds[k]) ELSE Absent]
                   ELSE Null,
      analyzedAt |-> t,
      originalText |-> [length |-> Len(text)]]
\* the object analyzeText returns, with an entry in results for a failed
\* kind as well
analyzeTextResultBoth(c, text, kinds, t) ==
  [success |-> \E k \in Kinds : kinds[k] # "none",
   results |-> [k \in Kinds |-> IF kinds[k] # "none" THEN Response(c, k) ELSE Absent],
   errors |-> IF \E k \in Kinds : kinds[k] \in FailureCodes
                THEN [k \in Kinds |->
                        IF kinds[k] \in FailureCodes
                          THEN FailMessage(k, kinds[k]) ELSE Absent]
                ELSE Null,
   analyzedAt |-> t,
   originalText |-> [length |-> Len(text)]]
\* the object analyzeText returns
analyzeTextResult(c, text, kinds, t) ==
  [success |-> \E k \in Kinds : kinds[k] = "ok",
   results |-> [k \in Kinds |-> IF kinds[k] = "ok" THEN Response(c, k) ELSE Absent],
   errors |-> IF \E k \in Kinds : kinds[k] \in FailureCodes
                THEN [k \in Kinds |->
                        IF kinds[k] \in FailureCodes
                          THEN FailMessage(k, kinds[k]) ELSE Absent]
                ELSE Null,
   analyzedAt |-> t,
   originalText |-> [length |-> Len(text)]]

(* ---------------- useAIAnalysis ---------------- *)

NoOptions == [includeSummary |-> "undefined", includeKeywords |-> "undefined",
              includeQuestions |-> "undefined"]

NoKinds == [k \in Kinds |-> "none"]

NoCall ==
  [pc |-> "idle", text |-> << >>, options |-> NoOptions, key |-> << >>,
   kinds |-> NoKinds, providerCalls |-> 0, cancelled |-> FALSE,
   expected |-> Null, staleSeen |-> FALSE, sent |-> << >>]

DoneCall == [NoCall EXCEPT !.pc = "done"]

\* the hook with a cache that earlier analyses filled
AInitOn(limit, options, cache0) ==
  /\ calls = [c \in 1 .. limit |-> NoCall]
  /\ callerOptions = options
  /\ isAnalyzing = FALSE
  /\ analysisProgress = 0
  /\ results = Null
  /\ analysisError = Null
  /\ analysisType = NoType
  /\ cache = cache0
  /\ now = 0
  /\ lastReturn = Null
  /\ lastFresh = Null

AInitWith(limit, options) == AInitOn(limit, options, << >>)

AInit == AInitWith(MaxCalls, SingleKindOptions)

FanoutInit == AInitWith(MaxFanoutCalls, FanoutOptions)

HookInit == AInitWith(MaxCalls, SummaryOptions)

FreshCall(c) ==
  calls[c].pc = "idle" /\ \A q \in CallIds : q < c => calls[q].pc # "idle"

\* what is known of a finished call
Returned(c, call, outcome, value) ==
  [call |-> c, text |-> call.text, options |-> call.options,
   outcome |-> outcome, value |-> value, kinds |-> call.kinds,
   providerCalls |-> call.providerCalls, cancelled |-> call.cancelled,
   expected |-> call.expected]

\* the result a second call is owed: the last provider run was for the same
\* text and options and ended less than an hour ago
Expected(text, options, fresh) ==
  IF fresh # Null /\ fresh.text = text /\ fresh.options = options
       /\ now - fresh.doneAt < CacheTTL
    THEN fresh.value
    ELSE Null

\* the cache holds an entry for the key that is older than an hour
StaleEntry(c, key) ==
  key \in CacheKeys(c) /\ now - c[CacheIndex(c, key)].timestamp > CacheTTL

\* analyzeAll(text, options) up to its first await, on cache map cache0
analyzeAllOn(c, text, options, cache0, fresh0) ==
  LET key == generateCacheKey(text, withType("all", options))
      cachedResult == getCachedResult(cache0, key, now)
      kinds == [k \in Kinds |-> IF included(options, k) THEN "pending" ELSE "none"]
      call == [pc |-> "awaiting", text |-> text, options |-> options, key |-> key,
               kinds |-> kinds,
               providerCalls |-> Cardinality({k \in Kinds : kinds[k] = "pending"}),
               cancelled |-> FALSE,
               expected |-> Expected(text, options, fresh0),
               staleSeen |-> StaleEntry(cache0, key),
               sent |-> processText(text)]
      early == [call EXCEPT !.kinds = NoKinds, !.providerCalls = 0]
  IN
  /\ FreshCall(c)
  /\ lastFresh' = fresh0
  /\ UNCHANGED <<now, callerOptions>>
  /\ IF isEmptyText(text)
       THEN \* throw new Error('텍스트가 비어있습니다.')
            /\ calls' = [calls EXCEPT ![c] = DoneCall]
            /\ lastReturn' = Returned(c, early, "rejected",
                                      [name |-> "Error", message |-> "empty text"])
            /\ cache' = cache0
            /\ UNCHANGED <<isAnalyzing, analysisProgress, results, analysisError,
                           analysisType>>
     ELSE IF cachedResult # Null
       THEN \* cache hit: setResults(cachedResult); return cachedResult
            /\ calls' = [calls EXCEPT ![c] = DoneCall]
            /\ lastReturn' = Returned(c, early, "resolved", cachedResult)
            /\ cache' = cacheAfterGet(cache0, key, now)
            /\ results' = cachedResult
            /\ UNCHANGED <<isAnalyzing, analysisProgress, analysisError, analysisType>>
     ELSE IF isEmptyText(processText(text))
       THEN \* analyzeText rejects with EMPTY_TEXT: catch, finally
            /\ calls' = [calls EXCEPT ![c] = DoneCall]
            /\ lastReturn' = Returned(c, early, "rejected",
                                      AnalysisError("No text provided for analysis",
                                                    400, "EMPTY_TEXT"))
            /\ cache' = cacheAfterGet(cache0, key, now)
            /\ isAnalyzing' = FALSE
            /\ analysisProgress' = 0
            /\ analysisType' = NoType
            /\ results' = Null
            /\ analysisError' = AnalysisError("No text provided for analysis",
                                              400, "EMPTY_TEXT")
     ELSE \* the provider calls of the included kinds are issued
            /\ calls' = [calls EXCEPT ![c] = call]
            /\ lastReturn' = lastReturn
            /\ cache' = cacheAfterGet(cache0, key, now)
            /\ isAnalyzing' = TRUE
            /\ analysisProgress' = 30
            /\ analysisType' = "all"
            /\ analysisError' = Null
            /\ results' = Null

AnalyzeAll(c, text, options) ==
  /\ analyzeAllOn(c, text, options, cache, lastFresh)
  /\ UNCHANGED <<tvars, cvars>>

\* reanalyze: cacheRef.current.delete(cacheKey); return analyzeAll(...)
Reanalyze(c, text, options) ==
  /\ analyzeAllOn(c, text, options,
                  MapDelete(cache, generateCacheKey(text, withType("all", options))),
                  Null)
  /\ UNCHANGED <<tvars, cvars>>

\* analyzeSummary / analyzeKeywords / analyzeQuestions (text, options) up to
\* the await of the kind's service call
AnalyzeKind(c, kind, text, options) ==
  LET key == generateCacheKey(text, withType(kind, options))
      cachedResult == getCachedResult(cache, key, now)
      call == [pc |-> "awaitingKind", text |-> text, options |-> options,
               key |-> key,
               kinds |-> [k \in Kinds |-> IF k = kind THEN "pending" ELSE "none"],
               providerCalls |-> 1, cancelled |-> FALSE,
               expected |-> Null, staleSeen |-> StaleEntry(cache, key),
               sent |-> text]
      early == [call EXCEPT !.kinds = NoKinds, !.providerCalls = 0]
  IN
  /\ FreshCall(c)
  /\ UNCHANGED <<now, callerOptions, lastFresh, results>>
  /\ IF isEmptyText(text)
       THEN \* throw new Error('텍스트가 비어있습니다.')
            /\ calls' = [calls EXCEPT ![c] = DoneCall]
            /\ lastReturn' = Returned(c, early, "rejected",
                                      [name |-> "Error", message |-> "empty text"])
            /\ UNCHANGED <<cache, isAnalyzing, analysisProgress, analysisError,
                           analysisType>>
     ELSE IF cachedResult # Null
       THEN \* return cachedResult
            /\ calls' = [calls EXCEPT ![c] = DoneCall]
            /\ lastReturn' = Returned(c, early, "resolved", cachedResult)
            /\ cache' = cacheAfterGet(cache, key, now)
            /\ UNCHANGED <<isAnalyzing, analysisProgress, analysisError, analysisType>>
     ELSE \* the service call of the kind is issued
            /\ calls' = [calls EXCEPT ![c] = call]
            /\ lastReturn' = lastReturn
            /\ cache' = cacheAfterGet(cache, key, now)
            /\ isAnalyzing' = TRUE
            /\ analysisProgress' = 30
            /\ analysisType' = kind
            /\ analysisError' = Null
  /\ UNCHANGED <<tvars, cvars>>

\* the kind's service call settled: the rest of the try block, or the catch,
\* and the finally
AnalyzeKindSettled(c, kind, outcome) ==
  /\ calls[c].pc = "awaitingKind"
  /\ calls[c].kinds[kind] = "pending"
  /\ IF outcome = "ok"
       THEN /\ cache' = setCachedResult(cache, calls[c].key, Response(c, kind), now)
            /\ lastReturn' = Returned(c, [calls[c] EXCEPT !.kinds[kind] = outcome],
                                      "resolved", Response(c, kind))
            /\ UNCHANGED analysisError
       ELSE /\ analysisError' = AnalysisError(FailMessage(kind, outcome).message,
                                              500, outcome)
            /\ lastReturn' = Returned(c, [calls[c] EXCEPT !.kinds[kind] = outcome],
                                      "rejected",
                                      AnalysisError(FailMessage(kind, outcome).message,
                                                    500, outcome))
            /\ UNCHANGED cache
  /\ isAnalyzing' = FALSE
  /\ analysisProgress' = 0
  /\ analysisType' = NoType
  /\ calls' = [calls EXCEPT ![c] = DoneCall]
  /\ UNCHANGED <<results, now, lastFresh, callerOptions>>
  /\ UNCHANGED <<tvars, cvars>>

\* the provider call of one kind settles: .then / .catch of analyzeText
KindSettles(c, kind) ==
  /\ calls[c].pc = "awaiting"
  /\ calls[c].kinds[kind] = "pending"
  /\ \E outcome \in {"ok"} \cup OtherCodes :
       calls' = [calls EXCEPT ![c].kinds[kind] = outcome]
  /\ UNCHANGED <<isAnalyzing, analysisProgress, results, analysisError,
                 analysisType, cache, now, lastReturn, lastFresh,
                 callerOptions>>
  /\ UNCHANGED <<tvars, cvars>>

\* the provider answers the request of one kind with status 429: callAI
\* throws RATE_LIMIT, the kind's function rethrows it with its prefix
KindRateLimited(c, kind) ==
  /\ calls[c].pc = "awaiting"
  /\ calls[c].kinds[kind] = "pending"
  /\ calls' = [calls EXCEPT ![c].kinds[kind] = "RATE_LIMIT"]
  /\ UNCHANGED <<isAnalyzing, analysisProgress, results, analysisError,
                 analysisType, cache, now, lastReturn, lastFresh,
                 callerOptions>>
  /\ UNCHANGED <<tvars, cvars>>

\* analyzeText resolved: the rest of analyzeAll's try block, and its finally
AnalyzeAllSettled(c) ==
  /\ calls[c].pc = "awaiting"
  /\ allSettled(calls[c].kinds)
  /\ LET aggregate == analyzeTextResult(c, calls[c].sent,
                                     calls[c].kinds, now)
     IN /\ results' = aggregate
        /\ cache' = setCachedResult(cache, calls[c].key, aggregate, now)
        /\ lastReturn' = Returned(c, calls[c], "resolved", aggregate)
        /\ lastFresh' = [text |-> calls[c].text, options |-> calls[c].options,
                         value |-> aggregate, doneAt |-> now]
  /\ isAnalyzing' = FALSE
  /\ analysisProgress' = 0
  /\ analysisType' = NoType
  /\ calls' = [calls EXCEPT ![c] = DoneCall]
  /\ UNCHANGED <<analysisError, now, callerOptions>>
  /\ UNCHANGED <<tvars, cvars>>

\* cancelAnalysis (abortControllerRef.current is never assigned)
CancelAnalysis ==
  /\ isAnalyzing' = FALSE
  /\ analysisProgress' = 0
  /\ analysisType' = NoType
  /\ calls' = [c \in CallIds |->
                 IF calls[c].pc = "awaiting"
                   THEN [calls[c] EXCEPT !.cancelled = TRUE] ELSE calls[c]]
  /\ UNCHANGED <<results, analysisError, cache, now, lastReturn, lastFresh,
                 callerOptions>>
  /\ UNCHANGED <<tvars, cvars>>

\* reset of the analysis hook
ResetAnalysis ==
  /\ resetAnalysis
  /\ UNCHANGED <<cache, now, calls, lastReturn, lastFresh, callerOptions>>
  /\ UNCHANGED <<tvars, cvars>>

\* clearCache
ClearCache ==
  /\ cache' = << >>
  /\ lastFresh' = Null
  /\ UNCHANGED <<isAnalyzing, analysisProgress, results, analysisError,
                 analysisType, now, calls, lastReturn, callerOptions>>
  /\ UNCHANGED <<tvars, cvars>>

\* time passes
Tick ==
  /\ \E t \in Times : t > now /\ now' = t
  /\ UNCHANGED <<isAnalyzing, analysisProgress, results, analysisError,
                 analysisType, cache, calls, lastReturn, lastFresh, callerOptions>>
  /\ UNCHANGED <<tvars, cvars>>

ANext ==
  \/ \E c \in CallIds, text \in Texts, options \in callerOptions :
       AnalyzeAll(c, text, options)
  \/ \E c \in CallIds, text \in Texts, options \in callerOptions :
       Reanalyze(c, text, options)
  \/ \E c \in CallIds, kind \in Kinds : KindSettles(c, kind)
  \/ \E c \in CallIds : AnalyzeAllSettled(c)
  \/ CancelAnalysis
  \/ ResetAnalysis
  \/ ClearCache
  \/ Tick

\* the requests of both hooks: the caller's invocations and the steps of the
\* runs and calls they started
RequestsNext ==
  \/ \E r \in RunIds : HandleTranscribe(r)
  \/ \E r \in RunIds : Retry(r)
  \/ \E r \in RunIds : DurationResolved(r)
  \/ \E r \in RunIds : XhrProgress(r)
  \/ \E r \in RunIds : XhrLoadOk(r)
  \/ \E r \in RunIds : XhrFail(r)
  \/ \E r \in RunIds : TokenOk(r)
  \/ \E r \in RunIds : TokenFail(r)
  \/ \E r \in RunIds : PutOk(r)
  \/ \E r \in RunIds : PutFail(r)
  \/ \E r \in RunIds : ProcessResponded(r)
  \/ \E r \in RunIds : ProcessFail(r)
  \/ \E r \in RunIds : JsonOk(r)
  \/ \E r \in RunIds : JsonFail(r)
  \/ \E r \in RunIds : TimerFired(r)
  \/ \E c \in CallIds, text \in Texts, options \in callerOptions :
       AnalyzeAll(c, text, options)
  \/ \E c \in CallIds, text \in Texts, options \in callerOptions :
       Reanalyze(c, text, options)
  \/ \E c \in CallIds, kind \in Kinds : KindSettles(c, kind)
  \/ \E c \in CallIds : AnalyzeAllSettled(c)

\* analyzeAll with a provider that may answer 429
RateLimitNext ==
  \/ \E c \in CallIds, text \in Texts, options \in callerOptions :
       AnalyzeAll(c, text, options)
  \/ \E c \in CallIds, kind \in Kinds : KindSettles(c, kind)
  \/ \E c \in CallIds, kind \in Kinds : KindRateLimited(c, kind)
  \/ \E c \in CallIds : AnalyzeAllSettled(c)
  \/ ResetAnalysis

\* the hook with its single-kind analyses as well, at one clock reading
HookNext ==
  \/ \E c \in CallIds, text \in Texts, options \in callerOptions :
       AnalyzeAll(c, text, options)
  \/ \E c \in CallIds, text \in Texts, options \in callerOptions :
       Reanalyze(c, text, options)
  \/ \E c \in CallIds, kind \in Kinds : KindSettles(c, kind)
  \/ \E c \in CallIds : AnalyzeAllSettled(c)
  \/ CancelAnalysis
  \/ ResetAnalysis
  \/ ClearCache
  \/ \E c \in CallIds, kind \in Kinds, text \in Texts, options \in callerOptions :
       AnalyzeKind(c, kind, text, options)
  \/ \E c \in CallIds, kind \in Kinds, outcome \in {"ok"} \cup OtherCodes :
       AnalyzeKindSettled(c, kind, outcome)

(* ---------------- the cache under many keys ---------------- *)

\* texts analyzed in one behaviour, and cache operations other than the
\* store of a new text
MaxKeys == 52
MaxCacheOps == 1

KeyIds == 1 .. MaxKeys

\* the texts that are analyzed again, looked up again or reanalyzed
HotKeys == {1}

\* the clock readings of one behaviour: the first one, and one by which
\* what was stored at the first has expired
CacheTimes == {0, CacheTTL + 1}

Digit(d) == <<"0", "1", "2", "3", "4", "5", "6", "7", "8", "9">>[d + 1]

\* the k-th text, and the key analyzeAll computes for it
KeyText(k) == <<Digit(k \div 10), Digit(k % 10)>>

KeyOf(k) == generateCacheKey(KeyText(k), withType("all", NoOptions))

\* no request has reached a relay
NoRelay ==
  [handler |-> "none", pc |-> "idle", size |-> 0, tempFile |-> "none",
   blob |-> "none", status |-> 0, code |-> "none"]

CInit ==
  /\ relay = NoRelay
  /\ nextKey = 1
  /\ cacheOps = 0
  /\ inserts = 0
  /\ insertSeq = [k \in KeyIds |-> 0]
  /\ probe = [op |-> "none"]

\* the key in the Map that was added to it before all others
Oldest(c) ==
  KeyOf(CHOOSE k \in KeyIds :
          /\ KeyOf(k) \in CacheKeys(c)
          /\ \A j \in KeyIds : KeyOf(j) \in CacheKeys(c) => insertSeq[k] <= insertSeq[j])

\* setCachedResult(cacheKey, result) at the end of an analyzeAll of text k
CacheStore(k) ==
  /\ \/ k = nextKey /\ nextKey' = nextKey + 1 /\ cacheOps' = cacheOps
     \/ /\ k \in HotKeys /\ k < nextKey
        /\ cacheOps < MaxCacheOps
        /\ cacheOps' = cacheOps + 1
        /\ nextKey' = nextKey
  /\ cache' = setCachedResult(cache, KeyOf(k),
                              analyzeTextResult(k, KeyText(k), NoKinds, now), now)
  /\ IF KeyOf(k) \in CacheKeys(cache)
       THEN UNCHANGED <<inserts, insertSeq>>
       ELSE /\ inserts' = inserts + 1
            /\ insertSeq' = [insertSeq EXCEPT ![k] = inserts + 1]
  /\ UNCHANGED <<isAnalyzing, analysisProgress, results, analysisError,
                 analysisType, now, calls, lastReturn, lastFresh, callerOptions>>
  /\ UNCHANGED <<tvars, pvars>>

\* getCachedResult(cacheKey) for text k
CacheLookup(k) ==
  /\ k < nextKey
  /\ cacheOps < MaxCacheOps
  /\ cacheOps' = cacheOps + 1
  /\ cache' = cacheAfterGet(cache, KeyOf(k), now)
  /\ probe' = [op |-> "lookup", k |-> k,
               returned |-> getCachedResult(cache, KeyOf(k), now)]
  /\ UNCHANGED <<isAnalyzing, analysisProgress, results, analysisError,
                 analysisType, now, calls, lastReturn, lastFresh, callerOptions>>
  /\ UNCHANGED <<nextKey, inserts, insertSeq, relay>>
  /\ UNCHANGED tvars

\* reanalyze: cacheRef.current.delete(cacheKey)
CacheForget(k) ==
  /\ k < nextKey
  /\ cacheOps < MaxCacheOps
  /\ cacheOps' = cacheOps + 1
  /\ cache' = MapDelete(cache, KeyOf(k))
  /\ UNCHANGED <<isAnalyzing, analysisProgress, results, analysisError,
                 analysisType, now, calls, lastReturn, lastFresh, callerOptions>>
  /\ UNCHANGED <<nextKey, inserts, insertSeq, pvars>>
  /\ UNCHANGED tvars

\* clearCache
CacheClear ==
  /\ cacheOps < MaxCacheOps
  /\ cacheOps' = cacheOps + 1
  /\ cache' = << >>
  /\ UNCHANGED <<isAnalyzing, analysisProgress, results, analysisError,
                 analysisType, now, calls, lastReturn, lastFresh, callerOptions>>
  /\ UNCHANGED <<nextKey, inserts, insertSeq, pvars>>
  /\ UNCHANGED tvars

\* time passes
CacheTick ==
  /\ cacheOps < MaxCacheOps
  /\ cacheOps' = cacheOps + 1
  /\ \E t \in CacheTimes : t > now /\ now' = t
  /\ UNCHANGED <<isAnalyzing, analysisProgress, results, analysisError,
                 analysisType, cache, calls, lastReturn, lastFresh, callerOptions>>
  /\ UNCHANGED <<nextKey, inserts, insertSeq, pvars>>
  /\ UNCHANGED tvars

CNext ==
  \/ \E k \in KeyIds : CacheStore(k)
  \/ \E k \in HotKeys : CacheLookup(k)
  \/ \E k \in HotKeys : CacheForget(k)
  \/ CacheClear
  \/ CacheTick

(***************************************************************************)
(* The file validations, applied to one file                               *)
(***************************************************************************)

ProbeSizes ==
  {1024, DirectMaxSize, DirectMaxSize + 1, maxFileSize, maxFileSize + 1,
   StagedMaxSize, StagedMaxSize + 1}

ProbeTypes == supportedTypes \cup {"video/mp4", "audio/flac", ""}

ProbeFiles == [size : ProbeSizes, type : ProbeTypes, duration : {60}]

\* transcribeAudio(file) up to its first await: the error it throws and the
\* requests it has issued
transcribeAudioBegin(file) ==
  [error |-> validateFile(file),
   requests |-> IF validateFile(file) # Null THEN << >> ELSE <<firstRequest>>]

\* the uploader is offered a file
HandleFileSelection(file) ==
  /\ probe' = [op |-> "handleFileSelection", file |-> file,
               alert |-> uploaderAlert(file),
               handedOn |-> uploaderAlert(file) = "none",
               requests |-> << >>]
  /\ UNCHANGED <<tvars, avars>>
  /\ UNCHANGED <<nextKey, cacheOps, inserts, insertSeq, relay>>

\* transcriptionService.transcribeAudio is called with a file
TranscribeAudioBegin(file) ==
  /\ probe' = [op |-> "transcribeAudio", file |-> file,
               error |-> transcribeAudioBegin(file).error,
               requests |-> transcribeAudioBegin(file).requests]
  /\ UNCHANGED <<tvars, avars>>
  /\ UNCHANGED <<nextKey, cacheOps, inserts, insertSeq, relay>>

ValidateNext ==
  \/ \E file \in ProbeFiles : HandleFileSelection(file)
  \/ \E file \in ProbeFiles : TranscribeAudioBegin(file)

(***************************************************************************)
(* The answer of the transcription backend, one answer at a time           *)
(***************************************************************************)
Statuses == {200, 400, 401, 413, 429, 500, 502, 503}

\* error.code of a JSON body ("undefined": the body has none)
BodyCodes == {"FILE_TOO_LARGE", "INTERNAL_ERROR", "request_too_large", "undefined"}

\* response bodies: JSON with error.code and error.message present or not,
\* and bodies that are not JSON
Bodies ==
  [json : {TRUE}, code : BodyCodes, message : {"from body", "undefined"}]
    \cup {[json |-> FALSE, code |-> "undefined", message |-> "undefined"]}

TooLargeMessage == "File too large for upload"

\* the 'load' listener of the direct strategy: what the promise settles with
xhrLoad(status, body) ==
  IF status = 200
    THEN IF body.json
           THEN [resolved |-> TRUE, error |-> Null]
           ELSE [resolved |-> FALSE,
                 error |-> TranscriptionError("Failed to parse API response",
                                              status, "PARSE_ERROR")]
  ELSE IF body.json
    THEN [resolved |-> FALSE,
          error |-> TranscriptionError(
                      IF status = 413 THEN TooLargeMessage
                      ELSE IF body.message # "undefined" THEN body.message
                      ELSE "Transcription failed",
                      status,
                      IF body.code # "undefined" THEN body.code ELSE "API_ERROR")]
  ELSE [resolved |-> FALSE,
        error |-> TranscriptionError(
                    IF status = 413 THEN TooLargeMessage ELSE "HTTP status",
                    status, "HTTP_ERROR")]

\* response.ok of fetch
ok(status) == status >= 200 /\ status <= 299

\* the staged strategy after the processing request was answered:
\* await transcribeResponse.json(), then the check of transcribeResponse.ok
processResponse(status, body) ==
  IF ~body.json
    THEN [resolved |-> FALSE,
          error |-> TranscriptionError("Unexpected error", 500, "UNEXPECTED_ERROR")]
  ELSE IF ~ok(status)
    THEN [resolved |-> FALSE,
          error |-> TranscriptionError(
                      IF body.message # "undefined" THEN body.message
                      ELSE "Transcription failed",
                      status,
                      IF body.code # "undefined" THEN body.code ELSE "API_ERROR")]
  ELSE [resolved |-> TRUE, error |-> Null]

\* the backend answers the request of the direct strategy
XhrLoad(status, body) ==
  /\ strategy = "direct"
  /\ probe' = [op |-> "xhrLoad", status |-> status, body |-> body,
               resolved |-> xhrLoad(status, body).resolved,
               error |-> xhrLoad(status, body).error]
  /\ UNCHANGED <<tvars, avars>>
  /\ UNCHANGED <<nextKey, cacheOps, inserts, insertSeq, relay>>

\* the backend answers the processing request of the staged strategy
ProcessResponse(status, body) ==
  /\ strategy = "staged"
  /\ probe' = [op |-> "processResponse", status |-> status, body |-> body,
               resolved |-> processResponse(status, body).resolved,
               error |-> processResponse(status, body).error]
  /\ UNCHANGED <<tvars, avars>>
  /\ UNCHANGED <<nextKey, cacheOps, inserts, insertSeq, relay>>

AnswerNext ==
  \/ \E status \in Statuses, body \in Bodies : XhrLoad(status, body)
  \/ \E status \in Statuses, body \in Bodies : ProcessResponse(status, body)

(***************************************************************************)
(* The relay endpoints: api/transcribe.js, its earlier variant (part_000)  *)
(* and api/transcribe-from-blob.js                                         *)
(***************************************************************************)
RelayHandlers == {"transcribe", "part_000", "transcribe-from-blob"}

\* maxFileSize of api/transcribe.js and maxSize of api/transcribe-from-blob.js
relayMaxFileSize == 15 * 1024 * 1024
blobMaxSize == 500 * 1024 * 1024

RelaySizes == {1024, relayMaxFileSize + 1, blobMaxSize + 1}

\* a POST reaches a relay: the multipart relays parse the form, the blob
\* relay downloads the blob the client has stored
RelayRequest(h, size) ==
  /\ relay.pc \in {"idle", "responded"}
  /\ relay' = [NoRelay EXCEPT
                 !.handler = h, !.size = size,
                 !.pc = IF h = "transcribe-from-blob" THEN "downloading" ELSE "parsing",
                 !.blob = IF h = "transcribe-from-blob" THEN "stored" ELSE "none"]
  /\ UNCHANGED <<tvars, avars>>
  /\ UNCHANGED <<nextKey, cacheOps, inserts, insertSeq, probe>>

\* res.status(status).json({error: {code}}) or res.status(200).json(data)
respond(r, status, code) == [r EXCEPT !.pc = "responded", !.status = status, !.code = code]

\* the finally block of api/transcribe.js: unlinkSync(audioFile.filepath)
finallyUnlink(r) == IF r.handler = "transcribe" THEN [r EXCEPT !.tempFile = "removed"] ELSE r

\* form.parse called back: with an error (formidable has removed what it
\* wrote), without a file, or with the file written to a temporary path
FormParsed(outcome) ==
  /\ relay.pc = "parsing"
  /\ relay' =
       IF relay.handler = "transcribe" /\ relay.size > relayMaxFileSize
         THEN respond(relay, 413, "FILE_TOO_LARGE")
       ELSE IF outcome = "error" THEN respond(relay, 500, "INTERNAL_ERROR")
       ELSE IF outcome = "no file" THEN respond(relay, 400, "MISSING_FILE")
       ELSE IF relay.handler = "transcribe" /\ relay.size > 15 * 1024 * 1024
         THEN respond([relay EXCEPT !.tempFile = "present"], 413, "FILE_TOO_LARGE")
       ELSE [relay EXCEPT !.tempFile = "present", !.pc = "calling"]
  /\ UNCHANGED <<tvars, avars>>
  /\ UNCHANGED <<nextKey, cacheOps, inserts, insertSeq, probe>>

\* fetch(blobUrl) answered: not ok (there is no such blob), too large, or
\* the bytes are in memory
BlobDownloaded(found) ==
  /\ relay.pc = "downloading"
  /\ relay' =
       IF ~found THEN respond([relay EXCEPT !.blob = "none"], 400, "BLOB_DOWNLOAD_FAILED")
       ELSE IF relay.size > blobMaxSize THEN respond(relay, 413, "FILE_TOO_LARGE")
       ELSE [relay EXCEPT !.pc = "calling"]
  /\ UNCHANGED <<tvars, avars>>
  /\ UNCHANGED <<nextKey, cacheOps, inserts, insertSeq, probe>>

\* the provider answered and its body parsed: part_000 unlinks the file
\* here, api/transcribe.js in its finally block
ProviderAnswered(status) ==
  /\ relay.pc = "calling"
  /\ LET unlinked == IF relay.handler = "part_000"
                       THEN [relay EXCEPT !.tempFile = "removed"] ELSE relay
     IN relay' = finallyUnlink(respond(unlinked, status,
                                       IF ok(status) THEN "none" ELSE "API_ERROR"))
  /\ UNCHANGED <<tvars, avars>>
  /\ UNCHANGED <<nextKey, cacheOps, inserts, insertSeq, probe>>

\* readFileSync, fetch or response.json() threw: the catch block answers 500
RelayThrew ==
  /\ relay.pc = "calling"
  /\ relay' = finallyUnlink(respond(relay, 500, "INTERNAL_ERROR"))
  /\ UNCHANGED <<tvars, avars>>
  /\ UNCHANGED <<nextKey, cacheOps, inserts, insertSeq, probe>>

RelayNext ==
  \/ \E h \in RelayHandlers, size \in RelaySizes : RelayRequest(h, size)
  \/ \E outcome \in {"error", "no file", "file"} : FormParsed(outcome)
  \/ \E found \in BOOLEAN : BlobDownloaded(found)
  \/ \E status \in Statuses : ProviderAnswered(status)
  \/ RelayThrew

(***************************************************************************)
(* extractKeywords / generateQuestions: from the provider's text to items  *)
(***************************************************************************)
\* A response is a sequence of tokens: the punctuation of JSON, the quote,
\* the key of the list, a line break, the fence marker of three backticks,
\* and the pieces of text "json" and "a". An item is given by the text of
\* its first field (word or question), a sequence of such pieces.
MaxItems == 2
MaxItemLen == 2

Fence == "fence"
Quote == "quote"
LineBreak == "\n"

ItemChars == {"a", "json", Fence}

ItemTexts == UNION {[1 .. n -> ItemChars] : n \in 0 .. MaxItemLen}

ItemLists == UNION {[1 .. n -> ItemTexts] : n \in 0 .. MaxItems}

ListKeys == {"keywords", "questions"}

Fencings == {"none", "json fence", "bare fence"}

\* the strict JSON text of a list of items under the key
RECURSIVE encodeItems(_)
encodeItems(items) ==
  IF items = << >> THEN << >>
  ELSE <<Quote>> \o Head(items) \o <<Quote>>
         \o (IF Tail(items) = << >> THEN << >>
             ELSE <<",">> \o encodeItems(Tail(items)))

encodeList(listKey, items) ==
  <<"{", listKey, ":", "[">> \o encodeItems(items) \o <<"]", "}">>

\* the text as the provider sends it, in a code fence or not
fenced(fencing, text) ==
  CASE fencing = "none" -> text
    [] fencing = "json fence" -> <<Fence, "json", LineBreak>> \o text \o <<LineBreak, Fence>>
    [] fencing = "bare fence" -> <<Fence, LineBreak>> \o text \o <<LineBreak, Fence>>

\* response.replace(...): every fence marker is removed, with a json tag
\* that follows it and with one line break after that
RECURSIVE stripFences(_)
stripFences(text) ==
  IF text = << >> THEN << >>
  ELSE IF Head(text) = Fence
    THEN LET afterFence == Tail(text)
             afterTag == IF afterFence # << >> /\ Head(afterFence) = "json"
                           THEN Tail(afterFence) ELSE afterFence
             afterBreak == IF afterTag # << >> /\ Head(afterTag) = LineBreak
                             THEN Tail(afterTag) ELSE afterTag
         IN stripFences(afterBreak)
  ELSE <<Head(text)>> \o stripFences(Tail(text))

\* .trim() of a text whose only white space is line breaks
RECURSIVE trimLines(_)
trimLines(text) ==
  IF text = << >> THEN << >>
  ELSE IF Head(text) = LineBreak THEN trimLines(Tail(text))
  ELSE IF text[Len(text)] = LineBreak THEN trimLines(SubSeq(text, 1, Len(text) - 1))
  ELSE text

NotJson == [parsed |-> FALSE, items |-> << >>]

\* the items of the text between "[" and "]": strings separated by commas
RECURSIVE parseItems(_)
parseItems(text) ==
  IF text = << >> \/ Head(text) # Quote
       \/ ~\E j \in 2 .. Len(text) : text[j] = Quote
    THEN NotJson
  ELSE LET close == CHOOSE j \in 2 .. Len(text) :
                      text[j] = Quote /\ \A i \in 2 .. j - 1 : text[i] # Quote
           item == SubSeq(text, 2, close - 1)
           rest == SubSeq(text, close + 1, Len(text))
       IN IF rest = << >> THEN [parsed |-> TRUE, items |-> <<item>>]
          ELSE IF Head(rest) # "," THEN NotJson
          ELSE LET more == parseItems(Tail(rest))
               IN IF more.parsed
                    THEN [parsed |-> TRUE, items |-> <<item>> \o more.items]
                    ELSE NotJson

\* JSON.parse(cleanedResponse), and the list under the key
jsonParse(listKey, text) ==
  IF /\ Len(text) >= 6
     /\ SubSeq(text, 1, 4) = <<"{", listKey, ":", "[">>
     /\ SubSeq(text, Len(text) - 1, Len(text)) = <<"]", "}">>
    THEN IF Len(text) = 6 THEN [parsed |-> TRUE, items |-> << >>]
         ELSE parseItems(SubSeq(text, 5, Len(text) - 2))
    ELSE NotJson

\* options.maxKeywords || 10, options.maxQuestions || 8
maxKeywords == 10
maxQuestions == 8

\* a token that the class [\w...] of the keyword pattern matches
IsWord(t) == t \in {"a", "json"} \cup ListKeys

\* response.match of the keyword pattern: the maximal runs of word tokens
RECURSIVE wordRuns(_, _)
wordRuns(text, cur) ==
  IF text = << >> THEN (IF cur = << >> THEN << >> ELSE <<cur>>)
  ELSE IF IsWord(Head(text)) THEN wordRuns(Tail(text), Append(cur, Head(text)))
  ELSE (IF cur = << >> THEN << >> ELSE <<cur>>) \o wordRuns(Tail(text), << >>)

\* response.match of the question pattern, a question mark and then any
\* characters but a line break: from each first question mark of a line to
\* the end of that line
RECURSIVE matchQuestions(_)
matchQuestions(text) ==
  IF text = << >> THEN << >>
  ELSE IF Head(text) # "?" THEN matchQuestions(Tail(text))
  ELSE LET breaks == {j \in 1 .. Len(text) : text[j] = LineBreak}
           stop == IF breaks = {} THEN Len(text) + 1
                   ELSE CHOOSE j \in breaks : \A i \in breaks : j <= i
       IN <<SubSeq(text, 1, stop - 1)>>
            \o matchQuestions(SubSeq(text, stop, Len(text)))

\* matches.slice(0, n)
slice0(matches, n) == SubSeq(matches, 1, Min(n, Len(matches)))

\* the items of the catch block of the JSON parse: the word runs as keywords,
\* the trimmed matches as questions; no match is null
fallbackItems(listKey, response) ==
  IF listKey = "keywords"
    THEN slice0(wordRuns(response, << >>), maxKeywords)
    ELSE LET questionMatches == slice0(matchQuestions(response), maxQuestions)
         IN [i \in 1 .. Len(questionMatches) |-> trim(questionMatches[i])]

\* extractKeywords / generateQuestions from the provider's response on:
\* the items and totalFound / totalGenerated. When the text does not parse
\* the items are those of the fallback, and with no match PARSE_ERROR is
\* thrown.
normalize(listKey, response) ==
  LET data == jsonParse(listKey, trimLines(stripFences(response)))
      matched == fallbackItems(listKey, response)
  IN IF data.parsed
       THEN [rejected |-> FALSE, parsed |-> TRUE, items |-> data.items,
             total |-> Len(data.items)]
     ELSE IF matched # << >>
       THEN [rejected |-> FALSE, parsed |-> FALSE, items |-> matched,
             total |-> Len(matched)]
     ELSE [rejected |-> TRUE, parsed |-> FALSE, items |-> << >>, total |-> 0]

\* the provider answers the request of a kind with the JSON of the items
NormalizeResponse(listKey, items, fencing) ==
  /\ probe.op = "none"
  /\ probe' = [op |-> "normalize", listKey |-> listKey, items |-> items,
               fencing |-> fencing,
               returned |-> normalize(listKey, fenced(fencing, encodeList(listKey, items)))]
  /\ UNCHANGED <<tvars, avars>>
  /\ UNCHANGED <<nextKey, cacheOps, inserts, insertSeq, relay>>

NormalizeNext ==
  \E listKey \in ListKeys, items \in ItemLists, fencing \in Fencings :
    NormalizeResponse(listKey, items, fencing)

\* how many texts were analyzed before, each with every kind: none, or as
\* many as leave the cache one short of full, or full
Prefills == {0, MaxCacheSize - 1, MaxCacheSize}

\* the cache after analyzeAll of the first n texts with no options
Prefilled(n) ==
  [i \in 1 .. n |->
     [key |-> KeyOf(i),
      result |-> analyzeTextResult(i, KeyText(i), [k \in Kinds |-> "ok"], 0),
      timestamp |-> 0]]

\* analyzeAll and reanalyze calls for the summary, on such a cache
FreshNext ==
  \/ \E c \in CallIds, text \in Texts, options \in callerOptions :
       AnalyzeAll(c, text, options)
  \/ \E c \in CallIds, text \in Texts, options \in callerOptions :
       Reanalyze(c, text, options)
  \/ \E c \in CallIds, kind \in Kinds : KindSettles(c, kind)
  \/ \E c \in CallIds : AnalyzeAllSettled(c)
  \/ Tick

\* texts longer than the prefix that enters the key: three that differ only
\* after it, one of them longer, one that differs from them in the case of
\* its first character, and one that differs from all in its last character
\* within the prefix
Stem(n) == [i \in 1 .. n |-> "x"]

PrefixTexts ==
  { Stem(KeyPrefixLength) \o <<"a">>,
    Stem(KeyPrefixLength) \o <<"b">>,
    Stem(KeyPrefixLength) \o <<"a", "b">>,
    <<"h">> \o Stem(KeyPrefixLength - 1) \o <<"a">>,
    <<"H">> \o Stem(KeyPrefixLength - 1) \o <<"b">>,
    Stem(KeyPrefixLength - 1) \o <<"a", "b">> }

\* analyzeAll calls with such texts
PrefixNext ==
  \/ \E c \in CallIds, text \in PrefixTexts, options \in callerOptions :
       AnalyzeAll(c, text, options)
  \/ \E c \in CallIds, kind \in Kinds : KindSettles(c, kind)
  \/ \E c \in CallIds : AnalyzeAllSettled(c)
  \/ Tick

\* texts around the threshold: of its length and one longer without a
\* sentence end, and of its length and longer with three sentences
LongTexts ==
  { Stem(LongTextThreshold),
    Stem(LongTextThreshold + 1),
    Stem(3000) \o <<".", " ">> \o Stem(3000) \o <<"?", " ">>
      \o Stem(LongTextThreshold - 6004),
    Stem(3000) \o <<".", " ">> \o Stem(3000) \o <<"?", " ">>
      \o Stem(LongTextThreshold - 6000) }

\* analyzeAll calls with such texts
LongNext ==
  \/ \E c \in CallIds, text \in LongTexts, options \in callerOptions :
       AnalyzeAll(c, text, options)
  \/ \E c \in CallIds, kind \in Kinds : KindSettles(c, kind)
  \/ \E c \in CallIds : AnalyzeAllSettled(c)

\* splitTextIntoChunks on its own: texts of a few characters, chunk sizes
\* below their length
MaxTextLen == 4
MaxChunkSizes == 3

ChunkChars == {"a", ".", "?", " "}

ChunkTexts == UNION {[1 .. n -> ChunkChars] : n \in 1 .. MaxTextLen}

\* aiAnalysisService.splitTextIntoChunks(text, maxChunkSize)
SplitText(text, maxChunkSize) ==
  /\ probe.op = "none"
  /\ probe' = [op |-> "chunks", text |-> text, maxChunkSize |-> maxChunkSize,
               returned |-> splitTextIntoChunks(text, maxChunkSize)]
  /\ UNCHANGED <<tvars, avars>>
  /\ UNCHANGED <<nextKey, cacheOps, inserts, insertSeq, relay>>

ChunksNext ==
  \E text \in ChunkTexts, maxChunkSize \in 1 .. MaxChunkSizes :
    SplitText(text, maxChunkSize)

\* every analysis function of the hook and clearCache, on such a cache, at
\* one clock reading
FullNext ==
  \/ \E c \in CallIds, text \in Texts, options \in callerOptions :
       AnalyzeAll(c, text, options)
  \/ \E c \in CallIds, text \in Texts, options \in callerOptions :
       Reanalyze(c, text, options)
  \/ \E c \in CallIds, kind \in Kinds : KindSettles(c, kind)
  \/ \E c \in CallIds : AnalyzeAllSettled(c)
  \/ \E c \in CallIds, kind \in Kinds, text \in Texts, options \in callerOptions :
       AnalyzeKind(c, kind, text, options)
  \/ \E c \in CallIds, kind \in Kinds, outcome \in {"ok"} \cup OtherCodes :
       AnalyzeKindSettled(c, kind, outcome)
  \/ ClearCache

\* responses that are no JSON: what callAI returns is data.response.trim(),
\* a text that is not empty and has no white space at its ends
MaxResponseLen == 3

FreeChars == {"a", "?", " ", LineBreak, "{"}

FreeTexts ==
  {r \in UNION {[1 .. n -> FreeChars] : n \in 1 .. MaxResponseLen} : trim(r) = r}

\* the provider answers the request of a kind with a text that is no JSON
NormalizeFreeText(listKey, response) ==
  /\ probe.op = "none"
  /\ probe' = [op |-> "fallback", listKey |-> listKey, response |-> response,
               returned |-> normalize(listKey, response)]
  /\ UNCHANGED <<tvars, avars>>
  /\ UNCHANGED <<nextKey, cacheOps, inserts, insertSeq, relay>>

FallbackNext ==
  \E listKey \in ListKeys, response \in FreeTexts :
    NormalizeFreeText(listKey, response)

\* the catch of extractKeywords / generateQuestions with the code replaced
rethrownAsKindError(kind, response) ==
  IF normalize(kind, response).rejected
    THEN AnalysisError(FailMessage(kind, "PARSE_ERROR").message, 500,
                       IF kind = "keywords" THEN "KEYWORD_ERROR" ELSE "QUESTION_ERROR")
    ELSE Null
\* what extractKeywords / generateQuestions throws on the response: the
\* PARSE_ERROR of the inner catch, passed through the outer catch with the
\* kind's prefix, its status and its code
rethrown(kind, response) ==
  IF normalize(kind, response).rejected
    THEN AnalysisError(FailMessage(kind, "PARSE_ERROR").message, 500, "PARSE_ERROR")
    ELSE Null

\* the provider answers the keyword or question request of call c with a
\* text that is no JSON: .then / .catch of analyzeText
KindAnswered(c, kind, response) ==
  /\ probe.op = "none"
  /\ calls[c].pc = "awaiting"
  /\ calls[c].kinds[kind] = "pending"
  /\ LET thrown == rethrown(kind, response)
     IN /\ probe' = [op |-> "answered", call |-> c, listKey |-> kind,
                     response |-> response,
                     returned |-> normalize(kind, response), thrown |-> thrown]
        /\ calls' = [calls EXCEPT ![c].kinds[kind] =
                       IF thrown = Null THEN "ok" ELSE thrown.code]
  /\ UNCHANGED <<isAnalyzing, analysisProgress, results, analysisError,
                 analysisType, cache, now, lastReturn, lastFresh,
                 callerOptions>>
  /\ UNCHANGED <<tvars, nextKey, cacheOps, inserts, insertSeq, relay>>

\* analyzeAll with a provider that may answer one request with free text
ParseNext ==
  \/ \E c \in CallIds, text \in Texts, options \in callerOptions :
       AnalyzeAll(c, text, options)
  \/ \E c \in CallIds, kind \in Kinds : KindSettles(c, kind)
  \/ \E c \in CallIds, kind \in ListKeys, response \in FreeTexts :
       KindAnswered(c, kind, response)
  \/ \E c \in CallIds : AnalyzeAllSettled(c)

(***************************************************************************)
(* Specifications                                                          *)
(***************************************************************************)
InitAnalysis == TIdle /\ AInit /\ CInit

SpecAnalysis == InitAnalysis /\ [][ANext]_vars

InitFanout == TIdle /\ FanoutInit /\ CInit

SpecFanout == InitFanout /\ [][ANext]_vars

SpecRateLimit == InitFanout /\ [][RateLimitNext]_vars

InitHook == TIdle /\ HookInit /\ CInit

\* the two hooks share no state: either a file was selected and the caller
\* transcribes it, or the caller analyses a text
InitRequests ==
  /\ CInit
  /\ \/ TSelected /\ AInitWith(MaxFanoutCalls, {})
     \/ TIdle /\ FanoutInit

SpecRequests == InitRequests /\ [][RequestsNext]_vars

SpecHook == InitHook /\ [][HookNext]_vars

InitTranscription == TInit /\ AInit /\ CInit

InitCache == TIdle /\ AInit /\ CInit

SpecCache == InitCache /\ [][CNext]_vars

SpecTranscription == InitTranscription /\ [][TNext]_vars

SpecSilent == InitTranscription /\ [][SilentNext]_vars

SpecValidate == InitTranscription /\ [][ValidateNext]_vars

SpecAnswer == InitTranscription /\ [][AnswerNext]_vars

SpecRelay == InitTranscription /\ [][RelayNext]_vars

SpecNormalize == InitAnalysis /\ [][NormalizeNext]_vars

SpecFallback == InitAnalysis /\ [][FallbackNext]_vars

InitFresh ==
  /\ TIdle
  /\ CInit
  /\ \E n \in Prefills : AInitOn(MaxCalls, SummaryOptions, Prefilled(n))

SpecFresh == InitFresh /\ [][FreshNext]_vars

SpecFull == InitFresh /\ [][FullNext]_vars

SpecPrefix == InitHook /\ [][PrefixNext]_vars


\* one analyzeAll call, of a caller that asks for any kinds
InitParse == TIdle /\ AInitWith(1, FanoutOptions) /\ CInit

SpecParse == InitParse /\ [][ParseNext]_vars

SpecLong == InitParse /\ [][LongNext]_vars

SpecChunks == InitAnalysis /\ [][ChunksNext]_vars

(***************************************************************************)
(* Properties of the transcription hook                                    *)
(***************************************************************************)

\* C1: after reset() (called directly or through handleFileSelect), and until
\* a new transcribe run starts, the hook keeps its Idle values: result and
\* error are null and progress is 0, whatever a superseded run does later.
C1_ResetDiscardsStaleRun ==
  idleSinceReset => (result = Null /\ error = Null /\ progress = 0)

\* C10: the progress values one transcribe run writes to the hook never
\* decrease, and a run that succeeded wrote 0 first and 100 last.
C10_ProgressMonotone ==
  \A r \in RunIds :
    /\ progressLog[r].mono
    /\ runs[r].pc = "succeeded" =>
         (progressLog[r].first = 0 /\ progressLog[r].last = Pct(100))

\* a transcribe run succeeded: its first write was 0, its last write 100,
\* and the hook shows its 100
C10_Witness ==
  \E r \in RunIds :
    /\ runs[r].pc = "succeeded"
    /\ progressLog[r].first = 0
    /\ progressLog[r].last = Pct(100)
    /\ progress = Pct(100)
    /\ result # Null

(***************************************************************************)
(* Properties of the analysis hook                                         *)
(***************************************************************************)

\* C2: once cancelAnalysis() was called on an analyzeAll call that awaits the
\* provider, the step in which that call finishes leaves the results state
\* as it was: the aggregate of a cancelled call is not written.
C2_CancelledAggregateDiscarded ==
  [][\A c \in CallIds :
       (calls[c].pc = "awaiting" /\ calls[c].cancelled /\ calls'[c].pc = "done")
         => results' = results]_vars

\* C3: no two analyzeAll calls with the same text and options await the
\* provider at the same time with provider calls issued by both.
C3_OneFanoutPerKey ==
  \A c1 \in CallIds, c2 \in CallIds :
    ( /\ c1 # c2
      /\ calls[c1].pc = "awaiting" /\ calls[c2].pc = "awaiting"
      /\ calls[c1].text = calls[c2].text
      /\ calls[c1].options = calls[c2].options )
    => (calls[c1].providerCalls = 0 \/ calls[c2].providerCalls = 0)

\* C4: an analyzeAll call with non-empty text whose three include flags are
\* all false is rejected, and issues no provider call.
C4_NothingIncludedRejected ==
  ( /\ lastReturn # Null
    /\ ~isEmptyText(lastReturn.text)
    /\ \A k \in Kinds : lastReturn.options[IncludeFlag(k)] = "false" )
  => (lastReturn.outcome = "rejected" /\ lastReturn.providerCalls = 0)

\* C5: an analyzeAll call that went to the provider resolves whatever the
\* outcomes of its kinds: every kind that succeeded is in the results of the
\* returned object, and every kind that failed has its message under its
\* own name in the errors of the returned object.
C5_PartialFailureIsolated ==
  (lastReturn # Null /\ lastReturn.providerCalls > 0)
  => /\ lastReturn.outcome = "resolved"
     /\ \A k \in Kinds :
          /\ lastReturn.kinds[k] = "ok"
               => lastReturn.value.results[k] = Response(lastReturn.call, k)
          /\ lastReturn.kinds[k] \in FailureCodes
               => /\ lastReturn.value.errors # Null
                  /\ lastReturn.value.errors[k] = FailMessage(k, lastReturn.kinds[k])
                  /\ lastReturn.value.results[k] = Absent

\* an analyzeAll call returned with one kind failed and another succeeded
C5_Witness ==
  /\ lastReturn # Null
  /\ lastReturn.outcome = "resolved"
  /\ \E k1 \in Kinds, k2 \in Kinds :
       /\ lastReturn.kinds[k1] = "ok"
       /\ lastReturn.kinds[k2] \in FailureCodes
       /\ lastReturn.value.results[k1] # Absent
       /\ lastReturn.value.errors[k2] # Absent

\* C6: the step in which an analyzeAll call stops awaiting analyzeText is
\* taken only when none of the kinds it issued is still pending.
C6_AggregateAfterAllSettled ==
  [][\A c \in CallIds :
       (calls[c].pc = "awaiting" /\ calls'[c].pc = "done")
         => \A k \in Kinds : calls[c].kinds[k] # "pending"]_vars

\* a call still awaits analyzeText while one of its kinds has failed and
\* another is pending
C6_Witness ==
  \E c \in CallIds, k1 \in Kinds, k2 \in Kinds :
    /\ calls[c].pc = "awaiting"
    /\ calls[c].kinds[k1] \in FailureCodes
    /\ calls[c].kinds[k2] = "pending"
    /\ isAnalyzing

\* C7: an analyzeAll call made less than an hour after a call with the same
\* text and options completed (the cache not cleared in between) issues no
\* provider call and resolves with the value the first call returned.
C7_SecondCallServedFromCache ==
  /\ \A c \in CallIds : calls[c].pc = "awaiting" => calls[c].expected = Null
  /\ (lastReturn # Null /\ lastReturn.expected # Null)
       => /\ lastReturn.providerCalls = 0
          /\ lastReturn.outcome = "resolved"
          /\ lastReturn.value = lastReturn.expected

\* a second call for a summary, made later than the first one completed,
\* returned the first call's result without a provider call
C7_Witness ==
  /\ lastReturn # Null
  /\ lastReturn.expected # Null
  /\ lastReturn.value = lastReturn.expected
  /\ lastReturn.providerCalls = 0
  /\ lastReturn.value.analyzedAt < now
  /\ lastReturn.value.success

C13_EmptyTextFailsLocally ==
  [][\A c \in CallIds, text \in Texts, options \in callerOptions :
       ( /\ calls[c].pc = "idle" /\ calls'[c].pc # "idle"
         /\ trim(text) = << >>
         /\ \/ AnalyzeAll(c, text, options)
            \/ \E kind \in Kinds : AnalyzeKind(c, kind, text, options) )
       => /\ calls'[c].pc = "done"
          /\ lastReturn'.call = c
          /\ lastReturn'.outcome = "rejected"
          /\ lastReturn'.providerCalls = 0
          /\ UNCHANGED <<cache, results, isAnalyzing, analysisProgress>>]_vars

\* a call with white-space-only text was rejected while another analysis
\* was running
C13_Witness ==
  /\ lastReturn # Null
  /\ lastReturn.outcome = "rejected"
  /\ trim(lastReturn.text) = << >>
  /\ Len(lastReturn.text) > 0
  /\ isAnalyzing
  /\ analysisProgress = 30

(***************************************************************************)
(* Properties of the cache                                                 *)
(***************************************************************************)

\* C9: when the cache holds 50 entries and a result is stored under a key
\* it does not hold, the cache afterwards holds the new key and every key it
\* held before except the one that was added first, and the entries of the
\* keys that stay are the same as before, so a lookup returns what it
\* returned before.
C9_EvictsEarliestInserted ==
  [][\A k \in KeyIds :
       ( /\ CacheStore(k)
         /\ Len(cache) = MaxCacheSize
         /\ KeyOf(k) \notin CacheKeys(cache) )
       => /\ CacheKeys(cache') = (CacheKeys(cache) \ {Oldest(cache)}) \cup {KeyOf(k)}
          /\ Len(cache') = MaxCacheSize
          /\ \A key \in CacheKeys(cache) \ {Oldest(cache)} :
               /\ cache'[CacheIndex(cache', key)] = cache[CacheIndex(cache, key)]
               /\ getCachedResult(cache', key, now) = getCachedResult(cache, key, now)
     ]_vars

\* the 51st text was stored into a cache that held the first 50: the first
\* text's key is gone, the keys of the 2nd to the 51st are there
C9_Witness ==
  /\ nextKey = MaxCacheSize + 2
  /\ Len(cache) = MaxCacheSize
  /\ KeyOf(1) \notin CacheKeys(cache)
  /\ \A k \in 2 .. MaxCacheSize + 1 :
       /\ KeyOf(k) \in CacheKeys(cache)
       /\ getCachedResult(cache, KeyOf(k), now) # Null

(***************************************************************************)
(* Properties of the file validations                                      *)
(***************************************************************************)

C12_UnsupportedTypeAlways ==
  (probe.op = "transcribeAudio" /\ probe.file.type \notin supportedTypes)
    => /\ probe.error # Null
       /\ probe.error.code = "UNSUPPORTED_FILE_TYPE"
       /\ probe.requests = << >>

\* C12 amended: transcribeAudio refuses every file whose type is not among
\* the supported types without a request, with UNSUPPORTED_FILE_TYPE when the
\* file is not larger than the ceiling (the size is looked at first) and
\* FILE_TOO_LARGE when it is; the uploader hands on no file whose type is not
\* among its formats, and its alert names the format.
C12_UnsupportedTypeRejectedLocally ==
  /\ (probe.op = "transcribeAudio" /\ probe.file.type \notin supportedTypes)
       => /\ probe.error # Null
          /\ probe.requests = << >>
          /\ probe.error.code =
               IF probe.file.size > maxSize THEN "FILE_TOO_LARGE"
                                            ELSE "UNSUPPORTED_FILE_TYPE"
  /\ (probe.op = "handleFileSelection" /\ probe.file.type \notin supportedFormats)
       => /\ ~probe.handedOn
          /\ probe.alert = "unsupported format"
          /\ probe.requests = << >>

\* a small video/mp4 file was refused by transcribeAudio as unsupported
C12_Witness ==
  /\ probe.op = "transcribeAudio"
  /\ probe.file.type = "video/mp4"
  /\ probe.file.size = 1024
  /\ probe.error.code = "UNSUPPORTED_FILE_TYPE"
  /\ probe.requests = << >>

\* C16: whenever a transcribe run fails, the step that ends it leaves the
\* hook with isTranscribing = false, result = null and error set to a typed
\* error that carries a kind and a message.
C16_FailureLeavesTypedError ==
  [][\A r \in RunIds :
       (runs[r].pc \notin {"idle", "failed"} /\ runs'[r].pc = "failed")
       => /\ isTranscribing' = FALSE
          /\ result' = Null
          /\ error' # Null
          /\ error'.name = "TranscriptionError"
          /\ error'.code # ""
          /\ error'.message # ""]_vars

\* C15: under both strategies a run whose request the backend does not
\* answer is not left pending past the 5-minute limit: no run waits at a
\* request for longer than the limit (it has failed with TIMEOUT by then).
C15_NoRunPendingPastLimit ==
  \A r \in RunIds : runs[r].pc \in Pending => runs[r].waited <= xhrTimeout

(***************************************************************************)
(* Requests                                                                *)
(***************************************************************************)
NoDuplicates(seq) == \A i, j \in DOMAIN seq : i # j => seq[i] # seq[j]

\* the kinds an analyzeAll call asks analyzeText for
requested(options) == {k \in Kinds : included(options, k)}

\* C14: nothing is retried automatically. No transcribe invocation issues
\* one of its transport requests twice, no analyzeAll invocation issues more
\* than one provider call for a kind it asked for (and none for another
\* kind), a settled kind is never pending again, and a run that has ended
\* issues nothing more: a further attempt is a new invocation by the caller.
C14_NoAutomaticRetries ==
  /\ [](/\ \A r \in RunIds : NoDuplicates(runs[r].requests)
        /\ \A c \in CallIds :
             /\ {k \in Kinds : calls[c].kinds[k] # "none"}
                  \subseteq requested(calls[c].options)
             /\ calls[c].providerCalls
                  <= Cardinality(requested(calls[c].options))
        /\ lastReturn # Null =>
             lastReturn.providerCalls
               <= Cardinality(requested(lastReturn.options)))
  /\ [][/\ \A r \in RunIds :
             runs[r].pc \in {"failed", "succeeded"} => runs'[r] = runs[r]
        /\ \A c \in CallIds, k \in Kinds :
             calls[c].pc = "awaiting" =>
               /\ calls'[c].pc = "awaiting" =>
                    calls'[c].providerCalls = calls[c].providerCalls
               /\ calls[c].kinds[k] # "pending" => calls'[c].kinds[k] # "pending"
        /\ \A c \in CallIds : calls[c].pc = "done" => calls'[c] = calls[c]]_vars

\* a run failed at its second request, and the retry the caller asked for
\* is a new run that has issued the first request once more
C14_Witness ==
  \E r, q \in RunIds :
    /\ r # q
    /\ runs[r].pc = "failed"
    /\ Len(runs[r].requests) = 2
    /\ runs[q].pc = "token"
    /\ runs[q].requests = <<runs[r].requests[1]>>

\* C18: when the provider answered a kind's request of an analyzeAll call
\* with status 429, the caller of analyzeAll gets the failure as code
\* RATE_LIMIT together with the retry hint: the call rejects with such an
\* error, or the error it reports for the kind carries that code.
C18_RateLimitSurfaced ==
  lastReturn # Null =>
    \A k \in Kinds :
      lastReturn.kinds[k] = "RATE_LIMIT" =>
        \/ /\ lastReturn.outcome = "rejected"
           /\ lastReturn.value.code = "RATE_LIMIT"
           /\ lastReturn.value.message[2] = RetryHint
        \/ /\ lastReturn.outcome = "resolved"
           /\ lastReturn.value.errors # Null
           /\ "code" \in DOMAIN lastReturn.value.errors[k]
           /\ lastReturn.value.errors[k].code = "RATE_LIMIT"
           /\ lastReturn.value.errors[k].message[2] = RetryHint

(***************************************************************************)
(* Properties of the backend's answers                                     *)
(***************************************************************************)

\* C17: when the backend answers with status 413, the error the caller gets
\* has the code FILE_TOO_LARGE, whatever the body of the answer is.
C17_Status413IsFileTooLarge ==
  (probe.op \in {"xhrLoad", "processResponse"} /\ probe.status = 413)
    => /\ ~probe.resolved
       /\ probe.error.code = "FILE_TOO_LARGE"

(***************************************************************************)
(* Properties of the relays                                                *)
(***************************************************************************)

\* C19: whenever a relay has answered a request, on whatever path, the
\* temporary file it wrote for the request is removed and the blob stored
\* for the request is deleted or due to be deleted.
C19_ResourcesCleanedOnCompletion ==
  relay.pc = "responded" =>
    /\ relay.tempFile # "present"
    /\ relay.blob \notin {"stored"}

(***************************************************************************)
(* Properties of the normalizers                                           *)
(***************************************************************************)

\* C20: for a response that is the strict JSON of a list of items, in a
\* code fence or not, extractKeywords / generateQuestions return exactly
\* those items, in their order, and their number as totalFound /
\* totalGenerated.
C20_StrictJsonGivesItsItems ==
  probe.op = "normalize" =>
    /\ ~probe.returned.rejected
    /\ probe.returned.items = probe.items
    /\ probe.returned.total = Len(probe.items)

\* a text is a run of consecutive characters of another
IsSubstring(part, whole) ==
  \E i \in 1 .. Len(whole) + 1, j \in 0 .. Len(whole) : SubSeq(whole, i, j) = part

\* C21: when strict JSON parsing of a question response fails, every item
\* the fallback returns is a substring of the response that ends in a
\* question mark, and a response with a question mark yields an item.
C21_FallbackQuestionsEndInMark ==
  (probe.op = "fallback" /\ probe.listKey = "questions" /\ ~probe.returned.parsed)
    => /\ \A i \in 1 .. Len(probe.returned.items) :
            /\ IsSubstring(probe.returned.items[i], probe.response)
            /\ probe.returned.items[i] # << >>
            /\ Last(probe.returned.items[i]) = "?"
       /\ (\E j \in 1 .. Len(probe.response) : probe.response[j] = "?")
            => Len(probe.returned.items) >= 1


\* the structured result of a kind: the count is that of the items, and no
\* item is without text
WellFormed(returned) ==
  /\ ~returned.rejected
  /\ returned.total = Len(returned.items)
  /\ \A i \in 1 .. Len(returned.items) : returned.items[i] # << >>

\* C22: when the answer to a keyword or question request parses neither as
\* JSON nor by the fallback, the kind fails with code PARSE_ERROR, and the
\* analyzeAll call resolves with that failure under the kind in errors and
\* with the results of the kinds that succeeded; any other answer that is
\* no JSON gives a well-formed result of the kind and no error.
C22_ParseErrorRecordedPerKind ==
  probe.op = "answered" =>
    LET c == probe.call
        kind == probe.listKey
        neither ==
          /\ ~jsonParse(kind, trimLines(stripFences(probe.response))).parsed
          /\ fallbackItems(kind, probe.response) = << >>
        returnedByCall ==
          lastReturn # Null /\ lastReturn.call = c /\ lastReturn.providerCalls > 0
    IN /\ neither => /\ probe.thrown # Null
                     /\ probe.thrown.code = "PARSE_ERROR"
       /\ ~neither => /\ probe.thrown = Null
                      /\ WellFormed(probe.returned)
       /\ returnedByCall =>
            /\ lastReturn.outcome = "resolved"
            /\ \A k \in Kinds \ {kind} :
                 lastReturn.kinds[k] = "ok"
                   => lastReturn.value.results[k] = Response(c, k)
            /\ IF neither
                 THEN /\ lastReturn.value.errors # Null
                      /\ lastReturn.value.errors[kind]
                           = [message |-> <<FailPrefix(kind), ParseMessage(kind)>>]
                      /\ lastReturn.value.results[kind] = Absent
                 ELSE /\ lastReturn.value.results[kind] = Response(c, kind)
                      /\ \/ lastReturn.value.errors = Null
                         \/ lastReturn.value.errors[kind] = Absent

\* an analyzeAll call resolved with a summary and with the parse failure of
\* its questions in errors
C22_Witness ==
  /\ probe.op = "answered"
  /\ probe.listKey = "questions"
  /\ probe.thrown # Null
  /\ lastReturn # Null
  /\ lastReturn.call = probe.call
  /\ lastReturn.outcome = "resolved"
  /\ lastReturn.value.success
  /\ lastReturn.value.results["summary"] # Absent
  /\ lastReturn.value.errors # Null
  /\ lastReturn.value.errors["questions"] # Absent

\* C23: in the aggregate an analyzeAll call got from analyzeText, a kind
\* that was requested is in results or in errors and not in both, and a
\* kind that was not requested is in neither.
C23_KindInResultsXorErrors ==
  (lastReturn # Null /\ lastReturn.outcome = "resolved")
    => \A k \in Kinds :
         LET inResults == lastReturn.value.results[k] # Absent
             inErrors == /\ lastReturn.value.errors # Null
                         /\ lastReturn.value.errors[k] # Absent
         IN IF included(lastReturn.options, k)
              THEN inResults # inErrors
              ELSE ~inResults /\ ~inErrors

\* a fresh run, asked for the summary and the questions, returned one of
\* them in results and the other in errors
C23_Witness ==
  /\ lastReturn # Null
  /\ lastReturn.outcome = "resolved"
  /\ lastReturn.providerCalls = 2
  /\ ~included(lastReturn.options, "keywords")
  /\ lastReturn.value.results["summary"] # Absent
  /\ lastReturn.value.errors # Null
  /\ lastReturn.value.errors["questions"] # Absent
  /\ lastReturn.value.errors["summary"] = Absent

\* the entry the cache holds under a key
EntryOf(c, key) == c[CacheIndex(c, key)]

\* C24: an analyzeAll run that missed the cache writes one entry, under its
\* all-kinds key and holding the aggregate it returns: when it completes no
\* other key is new, a key that was absent makes the cache one entry larger
\* unless the cache was full, every other entry that stays is as it was, and
\* an entry leaves only when the cache was full and the key was new, and
\* then it is the one added first; the lookup at its start changes no entry
\* of another key either.
C24_FreshRunStoresOneAggregate ==
  [][/\ \A c \in CallIds :
          AnalyzeAllSettled(c) =>
            LET key == calls[c].key
                others == CacheKeys(cache) \ {key}
                gone == others \ CacheKeys(cache')
            IN /\ key = generateCacheKey(calls[c].text,
                                         withType("all", calls[c].options))
               /\ key \in CacheKeys(cache')
               /\ EntryOf(cache', key).result = lastReturn'.value
               /\ EntryOf(cache', key).result
                    = analyzeTextResult(c, calls[c].sent,
                                        calls[c].kinds, now)
               /\ CacheKeys(cache') \ CacheKeys(cache) \subseteq {key}
               /\ (key \notin CacheKeys(cache) /\ Len(cache) < MaxCacheSize)
                    => Len(cache') = Len(cache) + 1
               /\ \A other \in others \ gone :
                    EntryOf(cache', other) = EntryOf(cache, other)
               /\ gone # {} => /\ Len(cache) = MaxCacheSize
                               /\ key \notin CacheKeys(cache)
                               /\ gone = {firstKey(cache)}
     /\ \A c \in CallIds, text \in Texts, options \in callerOptions :
          (AnalyzeAll(c, text, options) /\ calls'[c].pc = "awaiting") =>
            \A other \in (CacheKeys(cache) \cup CacheKeys(cache'))
                           \ {generateCacheKey(text, withType("all", options))} :
              /\ other \in CacheKeys(cache) /\ other \in CacheKeys(cache')
              /\ EntryOf(cache', other) = EntryOf(cache, other)
    ]_vars

\* a fresh run completed on a cache that was full: its aggregate is the
\* newest entry, the first text's entry is gone, the second text's is there
C24_Witness ==
  /\ lastReturn # Null
  /\ lastReturn.outcome = "resolved"
  /\ lastReturn.providerCalls = 1
  /\ Len(cache) = MaxCacheSize
  /\ newestKey(cache) = generateCacheKey(lastReturn.text,
                                         withType("all", lastReturn.options))
  /\ cache[Len(cache)].result = lastReturn.value
  /\ KeyOf(1) \notin CacheKeys(cache)
  /\ KeyOf(2) \in CacheKeys(cache)

\* C25: between the steps of any analyzeSummary, analyzeKeywords,
\* analyzeQuestions, analyzeAll, reanalyze and clearCache calls, in any
\* order of their completions, the cache holds at most 50 entries, each
\* under a key of its own.
C25_CacheAtMostFifty ==
  /\ Len(cache) <= MaxCacheSize
  /\ Cardinality(CacheKeys(cache)) = Len(cache)

\* a single-kind analysis and an analyzeAll run both stored into a cache
\* that held 49 entries: it holds 50, without the first text's
C25_Witness ==
  /\ Len(cache) = MaxCacheSize
  /\ KeyOf(1) \notin CacheKeys(cache)
  /\ KeyOf(MaxCacheSize - 1) \in CacheKeys(cache)
  /\ \E i, j \in 1 .. Len(cache) :
       /\ <<"type", "all">> \in cache[i].key[2]
       /\ cache[i].key[1] = <<"h", "i">>
       /\ \E kind \in Kinds : <<"type", kind>> \in cache[j].key[2]

\* C26: a lookup that returns a stored result leaves the cache as it was,
\* entry, timestamp and order; so when the key read last is the one that was
\* added first, the next store that finds the cache full removes that key.
C26_HitLeavesCacheUnchanged ==
  [][/\ \A k \in HotKeys :
          (CacheLookup(k) /\ getCachedResult(cache, KeyOf(k), now) # Null)
            => /\ cache' = cache
               /\ probe'.returned = EntryOf(cache, KeyOf(k)).result
     /\ \A k \in KeyIds :
          ( /\ CacheStore(k)
            /\ probe.op = "lookup" /\ probe.returned # Null
            /\ Len(cache) = MaxCacheSize
            /\ Oldest(cache) = KeyOf(probe.k)
            /\ KeyOf(k) \notin CacheKeys(cache) )
          => /\ KeyOf(probe.k) \notin CacheKeys(cache')
             /\ CacheKeys(cache') = (CacheKeys(cache) \ {KeyOf(probe.k)}) \cup {KeyOf(k)}
    ]_vars

\* the first text was read from a cache of 50 entries, and the store of the
\* 51st text then removed it
C26_Witness ==
  /\ probe.op = "lookup"
  /\ probe.returned # Null
  /\ probe.k = 1
  /\ nextKey = MaxCacheSize + 2
  /\ Len(cache) = MaxCacheSize
  /\ KeyOf(1) \notin CacheKeys(cache)
  /\ KeyOf(2) \in CacheKeys(cache)

\* C27: an analyzeAll call that finds under its key an entry stored no more
\* than an hour ago, the full hour included, resolves with the stored result
\* and leaves the cache as it was; an entry is absent and purged only when
\* it was stored more than an hour ago.
C27_ValidForTheFullHour ==
  [][\A c \in CallIds, text \in Texts, options \in callerOptions :
       LET key == generateCacheKey(text, withType("all", options))
       IN ( /\ calls[c].pc = "idle" /\ calls'[c].pc # "idle"
            /\ AnalyzeAll(c, text, options)
            /\ ~isEmptyText(text)
            /\ key \in CacheKeys(cache) )
          => IF now - EntryOf(cache, key).timestamp <= CacheTTL
               THEN /\ calls'[c].pc = "done"
                    /\ lastReturn'.outcome = "resolved"
                    /\ lastReturn'.value = EntryOf(cache, key).result
                    /\ cache' = cache
               ELSE /\ calls'[c].pc = "awaiting"
                    /\ key \notin CacheKeys(cache')]_vars

\* two texts are the same, trimmed and in lower case, up to the length of
\* the prefix
AgreeOnPrefix(a, b) ==
  LET na == toLowerCase(trim(a))
      nb == toLowerCase(trim(b))
  IN \A i \in 1 .. KeyPrefixLength :
       /\ (i <= Len(na)) = (i <= Len(nb))
       /\ i <= Len(na) => na[i] = nb[i]

\* C28: the key is the same for two texts that agree, trimmed and in lower
\* case, on the prefix and are analyzed with the same options; so an
\* analyzeAll call made less than an hour after a run for another such text
\* completed resolves with that run's result and issues no provider call.
C28_SharedPrefixSharesResult ==
  [][\A c \in CallIds, text \in PrefixTexts, options \in callerOptions :
       ( /\ calls[c].pc = "idle" /\ calls'[c].pc # "idle"
         /\ AnalyzeAll(c, text, options)
         /\ lastFresh # Null
         /\ lastFresh.text # text
         /\ lastFresh.options = options
         /\ AgreeOnPrefix(lastFresh.text, text)
         /\ now - lastFresh.doneAt < CacheTTL )
       => /\ generateCacheKey(text, withType("all", options))
               = generateCacheKey(lastFresh.text, withType("all", options))
          /\ calls'[c].pc = "done"
          /\ lastReturn'.outcome = "resolved"
          /\ lastReturn'.providerCalls = 0
          /\ lastReturn'.value = lastFresh.value
          /\ results' = lastFresh.value]_vars

\* a call returned, without a provider call, a result that was made from a
\* text of another length
C28_Witness ==
  /\ lastReturn # Null
  /\ lastReturn.outcome = "resolved"
  /\ lastReturn.providerCalls = 0
  /\ Len(lastReturn.text) > KeyPrefixLength
  /\ lastReturn.value.originalText.length # Len(lastReturn.text)
  /\ lastReturn.value.success

\* C29: an analyzeAll call that goes to the provider with a text of more
\* than 8000 characters sends, for every kind it includes, the first of the
\* chunks splitTextIntoChunks makes of the text with size 4000, and with a
\* text of 8000 characters or fewer it sends the text itself; the aggregate
\* is made from what was sent.
C29_FirstChunkOfLongTextSent ==
  [][/\ \A c \in CallIds, text \in LongTexts, options \in callerOptions :
          ( /\ calls[c].pc = "idle"
            /\ AnalyzeAll(c, text, options)
            /\ calls'[c].pc = "awaiting" )
          => /\ calls'[c].sent =
                  IF Len(text) > LongTextThreshold
                    THEN Head(splitTextIntoChunks(text, ChunkSize))
                    ELSE text
             /\ \A k \in Kinds :
                  calls'[c].kinds[k] = IF included(options, k) THEN "pending" ELSE "none"
     /\ \A c \in CallIds :
          AnalyzeAllSettled(c)
            => lastReturn'.value.originalText.length = Len(calls[c].sent)
    ]_vars

\* a run for a text of 8004 characters in three sentences returned an
\* aggregate made from its first sentence, 3001 characters with the full stop
C29_Witness ==
  /\ lastReturn # Null
  /\ lastReturn.outcome = "resolved"
  /\ lastReturn.providerCalls = 3
  /\ Len(lastReturn.text) = LongTextThreshold + 4
  /\ lastReturn.value.originalText.length = 3001

\* the texts of a sequence one after the other, each followed by a suffix
RECURSIVE Joined(_, _)
Joined(texts, suffix) ==
  IF texts = << >> THEN << >>
  ELSE Head(texts) \o suffix \o Joined(Tail(texts), suffix)

\* the chunks are some of the sentences each, in their order, every
\* sentence whole and in one chunk: chunk by chunk they read as the
\* sentences do one after the other, each closed by a full stop
SentencesInOrder(text, chunks) ==
  Joined(chunks, <<" ">>) = trimStart(Joined(splitSentences(text, 1), <<".", " ">>))

\* C30: for every text and every maxChunkSize, no chunk splitTextIntoChunks
\* returns is longer than maxChunkSize, and the chunks hold the sentences of
\* the text in their order, each once and whole.
C30_ChunksBoundedAndWhole ==
  probe.op = "chunks" =>
    /\ \A i \in 1 .. Len(probe.returned) :
         Len(probe.returned[i]) <= probe.maxChunkSize
    /\ Len(probe.text) > probe.maxChunkSize
         => SentencesInOrder(probe.text, probe.returned)

\* the requests of the staged strategy, in the order of the code
StagedRequests ==
  <<"POST /blob-upload-token", "PUT uploadUrl", "POST /transcribe-from-blob">>

\* the codes of the errors the staged transcribeAudio throws after its
\* validation
StagedCodes ==
  {"UPLOAD_TOKEN_FAILED", "BLOB_UPLOAD_FAILED", "API_ERROR", "UNEXPECTED_ERROR"}

Max(a, b) == IF a >= b THEN a ELSE b

\* options.maxKeywords || 10: the field when it is there and not 0
maxKeywordsOf(options) ==
  IF "maxKeywords" \in DOMAIN options /\ options.maxKeywords # 0
    THEN options.maxKeywords
    ELSE maxKeywords

\* the score of the fallback without the floor of 1
importanceUnclamped(index) == 10 - index
\* importance: Math.max(1, 10 - index), index counted from 0
importance(index) == Max(1, 10 - index)

\* keywordMatches.slice(0, maxKeywords).map((word, index) => ...)
keywordsData(response, limit) ==
  LET keywordMatches == slice0(wordRuns(response, << >>), limit)
  IN [i \in 1 .. Len(keywordMatches) |->
        [word |-> keywordMatches[i], importance |-> importance(i - 1),
         category |-> "other"]]

\* responses of up to MaxWords words, each two divided by one character
MaxWords == 12

WordTexts ==
  {[i \in 1 .. 2 * n - 1 |-> IF i % 2 = 1 THEN word ELSE divider] :
     n \in 1 .. MaxWords, word \in {"a", "json"}, divider \in {" ", "?", "{"}}

\* the options of extractKeywords: none, or a maxKeywords
KeywordOptions ==
  {[language |-> "ko"]} \cup {[maxKeywords |-> n] : n \in {0, 1, 2, 11, MaxWords}}

\* extractKeywords from the provider's response on, the response being a
\* text of words
ExtractKeywords(response, options) ==
  /\ probe.op = "none"
  /\ probe' = [op |-> "keywords", response |-> response, options |-> options,
               parsed |-> jsonParse("keywords", trimLines(stripFences(response))).parsed,
               matches |-> Len(wordRuns(response, << >>)),
               keywords |-> keywordsData(response, maxKeywordsOf(options))]
  /\ UNCHANGED <<tvars, avars>>
  /\ UNCHANGED <<nextKey, cacheOps, inserts, insertSeq, relay>>

KeywordsNext ==
  \E response \in WordTexts, options \in KeywordOptions :
    ExtractKeywords(response, options)

SpecKeywords == InitAnalysis /\ [][KeywordsNext]_vars

\* C32: when the response does not parse and has a word, the keywords of
\* the fallback are at most maxKeywords, each importance is in 1 .. 10, and
\* the importance does not grow from one position to the next.
C32_FallbackScoresBounded ==
  (probe.op = "keywords" /\ ~probe.parsed /\ probe.matches >= 1) =>
    /\ Len(probe.keywords) <= maxKeywordsOf(probe.options)
    /\ Len(probe.keywords) >= 1
    /\ \A i \in 1 .. Len(probe.keywords) :
         probe.keywords[i].importance \in 1 .. 10
    /\ \A i \in 1 .. Len(probe.keywords) - 1 :
         probe.keywords[i].importance >= probe.keywords[i + 1].importance

\* more than ten words and a maxKeywords over ten: the eleventh keyword has
\* the floor of the score, and fewer keywords than words are kept
C32_Witness ==
  /\ probe.op = "keywords"
  /\ ~probe.parsed
  /\ probe.matches > Len(probe.keywords)
  /\ Len(probe.keywords) = 11
  /\ probe.keywords[1].importance = 10
  /\ probe.keywords[11].importance = 1

\* C33: a reanalyze of a text and options whose entry is in the cache and
\* recent removes that entry and issues a provider call, and when its run
\* completes the cache holds the aggregate it returns under that key.
C33_ReanalyzeContactsProvider ==
  [][/\ \A c \in CallIds, text \in Texts, options \in callerOptions :
          LET key == generateCacheKey(text, withType("all", options))
          IN (getCachedResult(cache, key, now) # Null
                /\ Reanalyze(c, text, options)) =>
               /\ key \notin CacheKeys(cache')
               /\ calls'[c].pc = "awaiting"
               /\ calls'[c].providerCalls >= 1
     /\ \A c \in CallIds :
          AnalyzeAllSettled(c) =>
            /\ calls[c].key \in CacheKeys(cache')
            /\ EntryOf(cache', calls[c].key).result = lastReturn'.value
            /\ EntryOf(cache', calls[c].key).timestamp = now
    ]_vars

\* every kind the call asked for has failed, and it asked for one
AllRequestedFailed(kinds) ==
  /\ \E k \in Kinds : kinds[k] # "none"
  /\ \A k \in Kinds : kinds[k] # "none" => kinds[k] \in FailureCodes

\* C34 as stated: an analyzeAll run in which every requested kind failed
\* leaves the cache as it was.
C34_FailedRunNotCached ==
  [][\A c \in CallIds :
       (AnalyzeAllSettled(c) /\ AllRequestedFailed(calls[c].kinds))
         => cache' = cache]_vars

\* C34: an analyzeAll run stores its aggregate when it completes, also when
\* every requested kind failed: the aggregate with success false is then in
\* the cache under the call's key, and an analyzeAll of a text and options
\* whose recent entry is such an aggregate returns it and issues no provider
\* call.
C34_FailedRunCached ==
  [][/\ \A c \in CallIds :
          (AnalyzeAllSettled(c) /\ AllRequestedFailed(calls[c].kinds)) =>
            /\ calls[c].key \in CacheKeys(cache')
            /\ EntryOf(cache', calls[c].key).result = lastReturn'.value
            /\ ~lastReturn'.value.success
            /\ lastReturn'.value.errors # Null
     /\ \A c \in CallIds, text \in Texts, options \in callerOptions :
          LET key == generateCacheKey(text, withType("all", options))
              cachedResult == getCachedResult(cache, key, now)
          IN (AnalyzeAll(c, text, options) /\ ~isEmptyText(text)
                /\ cachedResult # Null) =>
               /\ calls'[c].pc = "done"
               /\ lastReturn'.outcome = "resolved"
               /\ lastReturn'.value = cachedResult
               /\ lastReturn'.providerCalls = 0
    ]_vars

\* the call was repeated after a run whose one requested kind failed: it
\* resolved from the cache with the aggregate of that run
C34_Witness ==
  /\ lastReturn # Null
  /\ lastReturn.outcome = "resolved"
  /\ lastReturn.providerCalls = 0
  /\ lastReturn.call = 2
  /\ ~lastReturn.value.success
  /\ lastReturn.value.errors # Null
  /\ lastFresh # Null
  /\ lastFresh.value = lastReturn.value

\* option objects of the single-kind analyses: none, or the type that
\* summarizeText reads (options.type), here a summary style or a name that
\* is also a kind
TypedOptions ==
  {NoOptions} \cup {[type |-> t] @@ NoOptions : t \in {"brief", "keywords"}}

\* the hook's single-kind analyses on options that may carry a type
TypedNext ==
  \/ \E c \in CallIds, kind \in Kinds, text \in Texts, options \in callerOptions :
       AnalyzeKind(c, kind, text, options)
  \/ \E c \in CallIds, kind \in Kinds, outcome \in {"ok"} \cup OtherCodes :
       AnalyzeKindSettled(c, kind, outcome)

InitTyped == TIdle /\ AInitWith(MaxCalls, TypedOptions) /\ CInit

SpecTyped == InitTyped /\ [][TypedNext]_vars

\* C35: a result that analyzeSummary, analyzeKeywords or analyzeQuestions
\* returns from the cache was produced by the analysis of the same kind,
\* whatever the text and the options, a type among the options included.
C35_CachedResultOfSameKind ==
  [][\A c \in CallIds, kind \in Kinds, text \in Texts, options \in callerOptions :
       LET key == generateCacheKey(text, withType(kind, options))
       IN (AnalyzeKind(c, kind, text, options) /\ ~isEmptyText(text)
             /\ getCachedResult(cache, key, now) # Null)
            => /\ lastReturn'.outcome = "resolved"
               /\ lastReturn'.value.kind = kind]_vars

\* the options object of the analysis control: the three switches and the
\* flat fields summaryType, maxKeywords, maxQuestions and language
ControlOptions ==
  [includeSummary : {"true", "false"},
   includeKeywords : {"true", "false"},
   includeQuestions : {"true", "false"},
   summaryType : {"brief", "comprehensive", "bullet"},
   maxKeywords : {5, 10},
   maxQuestions : {5, 8},
   language : {"ko", "en"}]

\* options.summary || {}, options.keywords || {}, options.questions || {}
kindOptions(options, kind) ==
  IF kind \in DOMAIN options THEN options[kind] ELSE << >>

\* options.language || 'ko', and the branch the templates take on it
languageOf(options) ==
  IF "language" \in DOMAIN options /\ options.language = "en" THEN "en" ELSE "ko"

\* options.type || 'comprehensive', and the case of the switch
summaryTypeOf(options) ==
  IF "type" \in DOMAIN options /\ options.type \in {"brief", "bullet"}
    THEN options.type ELSE "comprehensive"

\* options.maxQuestions || 8
maxQuestionsOf(options) ==
  IF "maxQuestions" \in DOMAIN options /\ options.maxQuestions # 0
    THEN options.maxQuestions
    ELSE maxQuestions

NoRequest ==
  [kind |-> "none", language |-> "none", style |-> "none", count |-> 0,
   temperature |-> 0, max_tokens |-> 0]

\* what summarizeText / extractKeywords / generateQuestions hand to callAI
\* for a text: the template chosen and what it interpolates, with the
\* temperature (in tenths) and max_tokens
kindRequest(kind, options) ==
  CASE kind = "summary" ->
         [kind |-> kind, language |-> languageOf(options),
          style |-> summaryTypeOf(options), count |-> 0, temperature |-> 3,
          max_tokens |-> CASE summaryTypeOf(options) = "brief" -> 200
                           [] summaryTypeOf(options) = "bullet" -> 300
                           [] OTHER -> 800]
    [] kind = "keywords" ->
         [kind |-> kind, language |-> languageOf(options), style |-> "none",
          count |-> maxKeywordsOf(options), temperature |-> 2, max_tokens |-> 800]
    [] kind = "questions" ->
         [kind |-> kind, language |-> languageOf(options), style |-> "none",
          count |-> maxQuestionsOf(options), temperature |-> 8, max_tokens |-> 1000]

\* the provider requests of analyzeAll(text, options) on a cache miss: the
\* hook forwards the switches and options.summary, options.keywords and
\* options.questions, analyzeText hands each to the function of its kind
providerRequests(options) ==
  [kind \in Kinds |->
     IF options[IncludeFlag(kind)] # "false"
       THEN kindRequest(kind, kindOptions(options, kind))
       ELSE NoRequest]

\* handleStartAnalysis with the control in one state and then in another,
\* on the same text
HandleStartAnalysis(first, second) ==
  /\ probe.op = "none"
  /\ probe' = [op |-> "requests", first |-> first, second |-> second,
               firstRequests |-> providerRequests(first),
               secondRequests |-> providerRequests(second)]
  /\ UNCHANGED <<tvars, avars>>
  /\ UNCHANGED <<nextKey, cacheOps, inserts, insertSeq, relay>>

ControlNext ==
  /\ probe.op = "none"
  /\ \E first \in ControlOptions, second \in ControlOptions :
       HandleStartAnalysis(first, second)

SpecControl == InitAnalysis /\ [][ControlNext]_vars

\* C36: two analyzeAll calls of the control on the same text, with the same
\* switches, that differ in the language, or in the summary style, the
\* keyword count or the question count of a kind that is switched on, build
\* different provider requests.
C36_ControlOptionsReachRequests ==
  (/\ probe.op = "requests"
   /\ \A kind \in Kinds :
        probe.first[IncludeFlag(kind)] = probe.second[IncludeFlag(kind)]
   /\ \/ /\ probe.first.language # probe.second.language
         /\ \E kind \in Kinds : probe.first[IncludeFlag(kind)] = "true"
      \/ /\ probe.first.summaryType # probe.second.summaryType
         /\ probe.first.includeSummary = "true"
      \/ /\ probe.first.maxKeywords # probe.second.maxKeywords
         /\ probe.first.includeKeywords = "true"
      \/ /\ probe.first.maxQuestions # probe.second.maxQuestions
         /\ probe.first.includeQuestions = "true")
    => probe.firstRequests # probe.secondRequests

\* the calls that missed the cache and have not returned
AwaitingCalls == {c \in CallIds : calls[c].pc \in {"awaiting", "awaitingKind"}}

\* C37: isAnalyzing is true exactly when a call that missed the cache has
\* not yet returned.
C37_AnalyzingIffCallAwaiting ==
  isAnalyzing <=> AwaitingCalls # {}

\* C38: the transcription hook never holds a result and an error at once.
C38_ResultAndErrorExclusive ==
  ~(result # Null /\ error # Null)

\* C39: with the direct transport, a file the uploader handed on is never
\* refused by the validation of transcribeAudio: no run fails with
\* FILE_TOO_LARGE or UNSUPPORTED_FILE_TYPE before it has issued a request.
C39_SelectedFilePassesValidation ==
  strategy = "direct" =>
    \/ error = Null
    \/ error.code \notin {"FILE_TOO_LARGE", "UNSUPPORTED_FILE_TYPE"}
    \/ \A r \in RunIds : runs[r].pc = "failed" => runs[r].requests # << >>

====
